---- MODULE Spec2Model ----
(***************************************************************************)
(* A model of repomap-core: the name-table builder, the two call resolvers *)
(* (parse/name_resolution.py) and the artifact pipeline that drives them   *)
(* (artifacts/write.py and artifacts/generators).                          *)
(*                                                                         *)
(* Strings.  A Python str is modelled as a sequence of tokens.  A token is *)
(* a TLA+ string that stands for a run of characters holding none of the   *)
(* delimiters the code splits on; the delimiters themselves (".", "/",     *)
(* "::", "@", " ") are tokens of their own.  "pkg.mod" is the sequence     *)
(* <<"pkg", ".", "mod">>, so str.split, str.join, str.strip, str.find and  *)
(* str.startswith are computed on the sequence as Python computes them on  *)
(* the characters.  The empty str is <<>>.                                 *)
(*                                                                         *)
(* Optional values.  None is <<>> and a present value x is <<x>>.          *)
(***************************************************************************)
EXTENDS Integers, Sequences, FiniteSets, TLC

VARIABLES
    pc,                  \* position of the run being modelled
    callee_expr,         \* resolve_call / resolve_call_class_context: callee_expr
    enclosing_symbol_id, \* resolve_call_class_context: enclosing_symbol_id (Optional str)
    name_table,          \* NameTable: local name -> NameBinding
    modules_index,       \* ModulesIndex: path -> module
    symbols_index,       \* SymbolsIndex, flattened in dict order: Seq of SymbolInfo
    result,              \* what the resolver returned (Optional tuple)
    files,               \* the source tree: relative path -> what the extractors read
    table_path,          \* build_name_table: file_path, the file the table is built for
    config,              \* RepoMapConfig: the include and exclude patterns
    out_dir,             \* generate_all_artifacts: out_dir of the run under way (Path.parts)
    disk,                \* the artifacts written so far: out_dir -> artifact -> content
    gitignores,          \* the .gitignore files of the tree: directory -> ignored names
    dep_graph,           \* find_cycles: graph, a dict of sets
    dep_edges,           \* compute_layer_violations: edges
    dep_paths,           \* compute_layer_violations: module_to_path
    layers,              \* compute_layer_violations: layers_config
    frame                \* the arguments, or the locals at return, of the one call a run makes

resolver_vars == <<callee_expr, enclosing_symbol_id, result>>

index_vars == <<name_table, modules_index, symbols_index>>

tree_vars == <<files, table_path, gitignores>>

pipeline_vars == <<config, out_dir, disk>>

deps_vars == <<dep_graph, dep_edges, dep_paths, layers, frame>>

vars == <<pc, resolver_vars, index_vars, tree_vars, pipeline_vars, deps_vars>>

----------------------------------------------------------------------------
(* Optional values *)

None == <<>>

Some(x) == <<x>>

IsNone(o) == o = <<>>

Get(o) == o[1]

----------------------------------------------------------------------------
(* Local variables: Once({F(x) : x \in {e}}) is F(e) with e evaluated a single
   time, as an assignment x = e followed by F(x) evaluates it; it reads from
   the last line up *)

\* the one value of a one-element set
Once(S) == CHOOSE r \in S : TRUE

\* the arguments of find_cycles and compute_layer_violations, and the frame of
\* a single call, in the runs that have none
NoDeps ==
    /\ dep_graph = <<>>
    /\ dep_edges = <<>>
    /\ dep_paths = <<>>
    /\ layers = <<>>
    /\ frame = <<>>

----------------------------------------------------------------------------
(* Python str operations on token sequences *)

WS == " "

DOT == "."

\* Tokens in ascending order of the text they stand for (code-point order of
\* Python's str comparison); no token is compared with one it is a prefix of.
TokenOrder ==
    <<" ", " as ", "(", ".", ".py", "/", "0", "1", "2", "3", "4", "5", "6", "7", "8", "9",
      ":", "::", "<", "@", "A", "B", "C", "L", "X", "__init__", "call", "cls", "ext:",
      "f", "fn", "foundation", "g", "integration", "interface", "json", "logging", "m", "mod", "module:", "name", "os", "pkg",
      "self", "src", "sub", "super", "super()", "sym:", "symbol:", "top", "x", "zz">>

Rank(t) == CHOOSE i \in 1..Len(TokenOrder) : TokenOrder[i] = t

\* a < b for two str values
RECURSIVE StrLess(_, _)
StrLess(a, b) ==
    IF b = <<>> THEN FALSE
    ELSE IF a = <<>> THEN TRUE
    ELSE IF Head(a) = Head(b) THEN StrLess(Tail(a), Tail(b))
    ELSE Rank(Head(a)) < Rank(Head(b))

RECURSIVE LStrip(_)
LStrip(s) == IF s # <<>> /\ Head(s) = WS THEN LStrip(Tail(s)) ELSE s

RECURSIVE RStrip(_)
RStrip(s) ==
    IF s # <<>> /\ s[Len(s)] = WS THEN RStrip(SubSeq(s, 1, Len(s) - 1)) ELSE s

\* str.strip()
Strip(s) == RStrip(LStrip(s))

\* str.find(tok): 1-based index of the first occurrence, 0 when absent
\* (Python's 0-based index and -1)
Find(s, tok) ==
    IF \E i \in 1..Len(s) : s[i] = tok
    THEN CHOOSE i \in 1..Len(s) : s[i] = tok /\ \A j \in 1..(i - 1) : s[j] # tok
    ELSE 0

\* str.rfind(tok), same convention
RFind(s, tok) ==
    IF \E i \in 1..Len(s) : s[i] = tok
    THEN CHOOSE i \in 1..Len(s) :
            s[i] = tok /\ \A j \in (i + 1)..Len(s) : s[j] # tok
    ELSE 0

\* str.split(sep): never empty, "" gives [""]
RECURSIVE Split(_, _)
Split(s, sep) ==
    LET i == Find(s, sep) IN
    IF i = 0 THEN <<s>>
    ELSE <<SubSeq(s, 1, i - 1)>> \o Split(SubSeq(s, i + 1, Len(s)), sep)

\* sep.join(parts)
RECURSIVE Join(_, _)
Join(parts, sep) ==
    IF parts = <<>> THEN <<>>
    ELSE IF Len(parts) = 1 THEN parts[1]
    ELSE parts[1] \o <<sep>> \o Join(Tail(parts), sep)

\* str.rsplit(sep, 1)
RSplit1(s, sep) ==
    LET i == RFind(s, sep) IN
    IF i = 0 THEN <<s>>
    ELSE <<SubSeq(s, 1, i - 1), SubSeq(s, i + 1, Len(s))>>

\* str.startswith(prefix)
StartsWith(s, prefix) ==
    Len(s) >= Len(prefix) /\ SubSeq(s, 1, Len(prefix)) = prefix

\* the concatenation of a sequence of sequences
RECURSIVE Concat(_)
Concat(ss) == IF ss = <<>> THEN <<>> ELSE Head(ss) \o Concat(Tail(ss))

\* the elements of a sequence
Range(s) == {s[i] : i \in 1..Len(s)}

\* the elements of a finite set of str values as a sequence in ascending order
RECURSIVE SortedStrs(_)
SortedStrs(S) ==
    IF S = {} THEN <<>>
    ELSE LET lo == CHOOSE x \in S : \A y \in S \ {x} : StrLess(x, y)
         IN <<lo>> \o SortedStrs(S \ {lo})

----------------------------------------------------------------------------
(* utils.py *)

\* str.endswith(".py") and the slice [:-3] that removes it
EndsWithPy(part) == part # <<>> /\ part[Len(part)] = ".py"

StripPy(part) == SubSeq(part, 1, Len(part) - 1)

\* every part of parts that is not the empty str, in order
RECURSIVE NonEmptyParts(_)
NonEmptyParts(parts) ==
    IF parts = <<>> THEN <<>>
    ELSE IF Head(parts) = <<>> THEN NonEmptyParts(Tail(parts))
    ELSE <<Head(parts)>> \o NonEmptyParts(Tail(parts))

\* path_to_module(file_path): the dotted module name of a relative path
path_to_module(file_path) ==
    LET normalized_parts == NonEmptyParts(Split(file_path, "/"))
        module_parts ==
            IF Len(normalized_parts) >= 2 /\ normalized_parts[1] = <<"src">>
            THEN Tail(normalized_parts)
            ELSE normalized_parts
        n == Len(module_parts)
        stripped ==
            IF n > 0 /\ EndsWithPy(module_parts[n])
            THEN [module_parts EXCEPT ![n] = StripPy(module_parts[n])]
            ELSE module_parts
        collapsed ==
            IF n > 0 /\ stripped[n] = <<"__init__">>
            THEN SubSeq(stripped, 1, n - 1)
            ELSE stripped
    IN Join(collapsed, DOT)

----------------------------------------------------------------------------
(* parse/name_resolution.py: shared helpers *)

STRATEGY_CONFIDENCE ==
    [module_local_def |-> 90,
     module_import_from |-> 80,
     module_import_module |-> 75,
     module_alias_assignment |-> 60,
     class_self_method |-> 70,
     class_cls_method |-> 70,
     class_super_method |-> 65,
     class_static_method |-> 75]

\* _is_internal_path(path, modules_index), path an Optional str
is_internal_path(path, mindex) == ~IsNone(path) /\ Get(path) \in DOMAIN mindex

\* _invert_modules_index: module -> the first path, in sorted order, mapped to it
invert_modules_index(mindex) ==
    [m \in {mindex[p] : p \in DOMAIN mindex} |->
        CHOOSE p \in DOMAIN mindex :
            /\ mindex[p] = m
            /\ \A q \in DOMAIN mindex : (mindex[q] = m /\ q # p) => StrLess(p, q)]

NameBinding(local_name, target_symbol_id, qualified_name, resolution, confidence, strategy, target_path, target_module) ==
    [local_name |-> local_name,
     target_symbol_id |-> target_symbol_id,
     qualified_name |-> qualified_name,
     resolution |-> resolution,
     confidence |-> confidence,
     strategy |-> strategy,
     target_path |-> target_path,
     target_module |-> target_module]

ResolvedTo(symbol_id, qualified_name, resolution, confidence, path, dst_module) ==
    [symbol_id |-> symbol_id,
     qualified_name |-> qualified_name,
     resolution |-> resolution,
     confidence |-> confidence,
     path |-> path,
     dst_module |-> dst_module]

\* _binding_to_resolved keeping the target module of a path outside the index
binding_to_resolved_keeps_module(binding, mindex) ==
    LET path == IF is_internal_path(binding.target_path, mindex)
                THEN binding.target_path ELSE None
        symbol_id ==
            IF ~IsNone(binding.target_symbol_id) /\ Get(binding.target_symbol_id) # <<>>
            THEN Get(binding.target_symbol_id)
            ELSE <<"ext:">> \o binding.qualified_name
    IN ResolvedTo(symbol_id, binding.qualified_name, binding.resolution,
                  binding.confidence, path, binding.target_module)

\* _binding_to_resolved(binding, modules_index)
binding_to_resolved(binding, mindex) ==
    LET path == IF is_internal_path(binding.target_path, mindex)
                THEN binding.target_path ELSE None
        dst_module == IF ~IsNone(path) THEN binding.target_module ELSE None
        symbol_id ==
            IF ~IsNone(binding.target_symbol_id) /\ Get(binding.target_symbol_id) # <<>>
            THEN Get(binding.target_symbol_id)
            ELSE <<"ext:">> \o binding.qualified_name
    IN ResolvedTo(symbol_id, binding.qualified_name, binding.resolution,
                  binding.confidence, path, dst_module)

\* the tuple (resolved_to, resolved_base_to, member, strategy, confidence)
Resolution(resolved_to, resolved_base_to, member, strategy, confidence) ==
    [resolved_to |-> resolved_to,
     resolved_base_to |-> resolved_base_to,
     member |-> member,
     strategy |-> strategy,
     confidence |-> confidence]

Unresolved == Resolution(None, None, None, "dynamic_unresolvable", 0)

\* What a call of a resolver did: it returned a value (for resolve_call the
\* tuple, for resolve_call_class_context the tuple or None), or it raised.
Returned(value) == [raised |-> "", returned |-> value]

Raised(exception) == [raised |-> exception, returned |-> None]

----------------------------------------------------------------------------
(* parse/name_resolution.py: Tier 1 *)

\* PrefixIndex with the loop run from the shortest prefix up
PrefixIndexShortestFirst(parts, table) ==
    LET hits == {i \in 1..(Len(parts) - 1) :
                    Join(SubSeq(parts, 1, i), DOT) \in DOMAIN table}
    IN IF hits = {} THEN 0 ELSE CHOOSE i \in hits : \A j \in hits : i <= j

\* the loop "for i in range(len(parts) - 1, 0, -1)": the largest i whose prefix
\* parts[:i] is a key of the table, 0 when there is none
PrefixIndex(parts, table) ==
    LET hits == {i \in 1..(Len(parts) - 1) :
                    Join(SubSeq(parts, 1, i), DOT) \in DOMAIN table}
    IN IF hits = {} THEN 0 ELSE CHOOSE i \in hits : \A j \in hits : j <= i

\* Consume with the membership test made after the segment is taken
RECURSIVE ConsumeThenTest(_, _, _, _)
ConsumeThenTest(current_module, remaining_parts, consumed, module_to_path) ==
    IF consumed = Len(remaining_parts) THEN <<current_module, consumed>>
    ELSE LET candidate == current_module \o <<DOT>> \o remaining_parts[consumed + 1]
         IN IF candidate \notin DOMAIN module_to_path
            THEN <<candidate, consumed + 1>>
            ELSE ConsumeThenTest(candidate, remaining_parts, consumed + 1, module_to_path)

\* the loop "for part in remaining_parts": <<current_module, consumed>> after it
RECURSIVE Consume(_, _, _, _)
Consume(current_module, remaining_parts, consumed, module_to_path) ==
    IF consumed = Len(remaining_parts) THEN <<current_module, consumed>>
    ELSE LET candidate == current_module \o <<DOT>> \o remaining_parts[consumed + 1]
         IN IF candidate \notin DOMAIN module_to_path
            THEN <<current_module, consumed>>
            ELSE Consume(candidate, remaining_parts, consumed + 1, module_to_path)

\* the part of resolve_call after the direct lookup failed on a dotted expression
ResolvePrefix(parts, table, mindex) ==
    LET module_to_path == invert_modules_index(mindex)
        prefix_index == PrefixIndex(parts, table)
    IN IF prefix_index = 0 THEN Returned(Some(Unresolved))
       ELSE
        LET prefix_binding == table[Join(SubSeq(parts, 1, prefix_index), DOT)]
            remaining_parts == SubSeq(parts, prefix_index + 1, Len(parts))
            walked == Consume(prefix_binding.qualified_name, remaining_parts, 0,
                              module_to_path)
            current_module == walked[1]
            consumed == walked[2]
            module_path == module_to_path[current_module]
            base_binding ==
                IF consumed > 0
                THEN NameBinding(
                        Join(SubSeq(parts, 1, prefix_index + consumed), DOT),
                        Some(<<"module:">> \o module_path),
                        current_module, "module",
                        STRATEGY_CONFIDENCE.module_import_module,
                        "module_import_module",
                        Some(module_path),
                        Some(current_module))
                ELSE prefix_binding
            unresolved_tail == SubSeq(remaining_parts, consumed + 1,
                                      Len(remaining_parts))
        IN IF remaining_parts = <<>> THEN Raised("AssertionError")
           ELSE IF consumed > 0 /\ current_module \notin DOMAIN module_to_path
           THEN Raised("KeyError")
           ELSE IF unresolved_tail = <<>>
           THEN Returned(Some(Resolution(
                    Some(binding_to_resolved(base_binding, mindex)), None, None,
                    base_binding.strategy, base_binding.confidence)))
           ELSE Returned(Some(Resolution(
                    None, Some(binding_to_resolved(base_binding, mindex)),
                    Some(Join(unresolved_tail, DOT)),
                    base_binding.strategy, base_binding.confidence)))

\* resolve_call without the direct lookup of the whole expression
resolve_call_no_direct(expr_in, table, mindex) ==
    LET expr == Strip(expr_in)
        parts == Split(expr, DOT)
    IN IF expr = <<>> \/ Len(parts) = 1 THEN Returned(Some(Unresolved))
       ELSE ResolvePrefix(parts, table, mindex)

\* resolve_call(callee_expr, name_table, modules_index)
resolve_call(expr_in, table, mindex) ==
    LET expr == Strip(expr_in) IN
    IF expr = <<>> THEN Returned(Some(Unresolved))
    ELSE IF expr \in DOMAIN table
    THEN Returned(Some(Resolution(
            Some(binding_to_resolved(table[expr], mindex)), None, None,
            table[expr].strategy, table[expr].confidence)))
    ELSE LET parts == Split(expr, DOT) IN
         IF Len(parts) = 1 THEN Returned(Some(Unresolved))
         ELSE ResolvePrefix(parts, table, mindex)

----------------------------------------------------------------------------
(* parse/name_resolution.py: the symbols index *)

SymbolInfo(symbol_id, qualified_name, name, kind, path, base_classes, module) ==
    [symbol_id |-> symbol_id,
     qualified_name |-> qualified_name,
     name |-> name,
     kind |-> kind,
     path |-> path,
     base_classes |-> base_classes,
     module |-> module]

\* the sort key of build_symbols_index: (path, qualified_name, symbol_id)
SymbolKeyLess(a, b) ==
    \/ StrLess(a.path, b.path)
    \/ a.path = b.path /\ StrLess(a.qualified_name, b.qualified_name)
    \/ a.path = b.path /\ a.qualified_name = b.qualified_name
        /\ StrLess(a.symbol_id, b.symbol_id)

\* list.sort(key=...) by insertion: stable, equal keys keep their order
RECURSIVE InsertSymbol(_, _)
InsertSymbol(sorted, x) ==
    IF sorted = <<>> THEN <<x>>
    ELSE IF SymbolKeyLess(x, Head(sorted)) THEN <<x>> \o sorted
    ELSE <<Head(sorted)>> \o InsertSymbol(Tail(sorted), x)

RECURSIVE SortSymbols(_)
SortSymbols(list) ==
    IF list = <<>> THEN <<>>
    ELSE Once({InsertSymbol(sorted, list[Len(list)])
               : sorted \in {SortSymbols(SubSeq(list, 1, Len(list) - 1))}})

RECURSIVE SelectSeqBy(_, _)
SelectSeqBy(list, keep) ==
    IF list = <<>> THEN <<>>
    ELSE IF Head(list) \in keep THEN <<Head(list)>> \o SelectSeqBy(Tail(list), keep)
    ELSE SelectSeqBy(Tail(list), keep)

\* the distinct values of a sequence in order of first appearance
RECURSIVE FirstSeen(_)
FirstSeen(list) ==
    IF list = <<>> THEN <<>>
    ELSE Once({IF list[Len(list)] \in Range(before) THEN before
               ELSE before \o <<list[Len(list)]>>
               : before \in {FirstSeen(SubSeq(list, 1, Len(list) - 1))}})

\* build_symbols_index(symbol_records, modules_index): records of paths the
\* modules index knows, grouped under their module in order of first
\* appearance, each group sorted; flattened in the dict's iteration order
build_symbols_index(symbol_records, mindex) ==
    LET infos == [i \in 1..Len(symbol_records) |->
                    IF symbol_records[i].path \in DOMAIN mindex
                    THEN Some(SymbolInfo(symbol_records[i].symbol_id,
                                         symbol_records[i].qualified_name,
                                         symbol_records[i].name,
                                         symbol_records[i].kind,
                                         symbol_records[i].path,
                                         IF symbol_records[i].base_classes = <<>>
                                         THEN None
                                         ELSE Some(symbol_records[i].base_classes),
                                         mindex[symbol_records[i].path]))
                    ELSE None]
        kept == Concat(infos)
        modules == FirstSeen([i \in 1..Len(kept) |-> kept[i].module])
    IN Concat([k \in 1..Len(modules) |->
                SortSymbols(SelectSeqBy(kept, {x \in Range(kept) : x.module = modules[k]}))])

----------------------------------------------------------------------------
(* parse/name_resolution.py: Tier 2 *)

\* the first symbol of the index, in iteration order, with this qualified name
\* and kind; None when there is none
FirstSymbol(qname, kind, sindex) ==
    LET hits == {i \in 1..Len(sindex) :
                    sindex[i].qualified_name = qname /\ sindex[i].kind = kind}
    IN IF hits = {} THEN None
       ELSE Some(sindex[CHOOSE i \in hits : \A j \in hits : i <= j])

ClassContext(class_qualified_name, class_symbol_id, class_path, class_module) ==
    [class_qualified_name |-> class_qualified_name,
     class_symbol_id |-> class_symbol_id,
     class_path |-> class_path,
     class_module |-> class_module]

\* _find_enclosing_class(enclosing_symbol_id, symbols_index) -> Optional ClassContext
find_enclosing_class(enclosing_id, sindex) ==
    IF IsNone(enclosing_id) \/ Get(enclosing_id) = <<>> THEN None
    ELSE IF ~StartsWith(Get(enclosing_id), <<"sym:">>) THEN None
    ELSE
      LET after_sym == Tail(Get(enclosing_id))
          double_colon_pos == Find(after_sym, "::")
          qname_and_loc == SubSeq(after_sym, double_colon_pos + 1, Len(after_sym))
          at_pos == Find(qname_and_loc, "@")
          enclosing_qname == SubSeq(qname_and_loc, 1, at_pos - 1)
          parts == RSplit1(enclosing_qname, DOT)
          found == FirstSymbol(parts[1], "class", sindex)
      IN IF double_colon_pos = 0 THEN None
         ELSE IF at_pos = 0 THEN None
         ELSE IF Len(parts) < 2 THEN None
         ELSE IF IsNone(found) THEN None
         ELSE Some(ClassContext(Get(found).qualified_name, Get(found).symbol_id,
                                Get(found).path, Get(found).module))

\* find_method_in_class looking among the functions instead of the methods
find_method_in_class_function_kind(class_qname, method_name, sindex) ==
    FirstSymbol(class_qname \o <<DOT>> \o method_name, "function", sindex)

\* _find_method_in_class(class_qname, method_name, symbols_index)
find_method_in_class(class_qname, method_name, sindex) ==
    FirstSymbol(class_qname \o <<DOT>> \o method_name, "method", sindex)

\* _find_class_by_qname(class_qname, symbols_index)
find_class_by_qname(class_qname, sindex) == FirstSymbol(class_qname, "class", sindex)

\* _resolve_base_class_qname(base_name, class_module, name_table, symbols_index)
resolve_base_class_qname(base_name, class_module, table, sindex) ==
    IF base_name \in DOMAIN table THEN Some(table[base_name].qualified_name)
    ELSE IF ~IsNone(FirstSymbol(class_module \o <<DOT>> \o base_name, "class", sindex))
    THEN Some(class_module \o <<DOT>> \o base_name)
    ELSE None

\* modules_index.get(path)
IndexGet(mindex, path) == IF path \in DOMAIN mindex THEN Some(mindex[path]) ELSE None

\* the full resolution to a method symbol that the four shapes return
MethodResolution(method_symbol, strategy, mindex) ==
    Resolution(Some(ResolvedTo(method_symbol.symbol_id, method_symbol.qualified_name,
                               "method", STRATEGY_CONFIDENCE[strategy],
                               Some(method_symbol.path),
                               IndexGet(mindex, method_symbol.path))),
               None, None, strategy, STRATEGY_CONFIDENCE[strategy])

\* ClassPartial with the called name dropped
ClassPartialNoMember(class_symbol, method_name, strategy, mindex) ==
    Resolution(None,
               Some(ResolvedTo(class_symbol.symbol_id, class_symbol.qualified_name,
                               "class", STRATEGY_CONFIDENCE[strategy],
                               Some(class_symbol.path),
                               IndexGet(mindex, class_symbol.path))),
               None, strategy, STRATEGY_CONFIDENCE[strategy])

\* the partial resolution to a class symbol of self, cls and super()
ClassPartial(class_symbol, method_name, strategy, mindex) ==
    Resolution(None,
               Some(ResolvedTo(class_symbol.symbol_id, class_symbol.qualified_name,
                               "class", STRATEGY_CONFIDENCE[strategy],
                               Some(class_symbol.path),
                               IndexGet(mindex, class_symbol.path))),
               Some(method_name), strategy, STRATEGY_CONFIDENCE[strategy])

\* the branches "self.method()" and "cls.method()"
ResolveOnEnclosingClass(method_name, strategy, enclosing_id, mindex, sindex) ==
    LET class_ctx == find_enclosing_class(enclosing_id, sindex) IN
    IF IsNone(class_ctx) THEN None
    ELSE
      LET method_symbol == find_method_in_class(Get(class_ctx).class_qualified_name,
                                                method_name, sindex)
          class_symbol == find_class_by_qname(Get(class_ctx).class_qualified_name, sindex)
      IN IF ~IsNone(method_symbol)
         THEN Some(MethodResolution(Get(method_symbol), strategy, mindex))
         ELSE IF ~IsNone(class_symbol)
         THEN Some(ClassPartial(Get(class_symbol), method_name, strategy, mindex))
         ELSE None

\* ResolveSuper taking the first base whatever the number of bases
ResolveSuperFirstBase(method_name, enclosing_id, table, mindex, sindex) ==
    LET class_ctx == find_enclosing_class(enclosing_id, sindex) IN
    IF IsNone(class_ctx) THEN None
    ELSE
      LET class_symbol == find_class_by_qname(Get(class_ctx).class_qualified_name, sindex)
          bases == Get(Get(class_symbol).base_classes)
          base_qname == resolve_base_class_qname(bases[1], Get(class_ctx).class_module,
                                                 table, sindex)
          base_method == find_method_in_class(Get(base_qname), method_name, sindex)
          base_class_symbol == find_class_by_qname(Get(base_qname), sindex)
      IN IF IsNone(class_symbol) \/ IsNone(Get(class_symbol).base_classes) THEN None
         ELSE IF IsNone(base_qname) THEN None
         ELSE IF ~IsNone(base_method)
         THEN Some(MethodResolution(Get(base_method), "class_super_method", mindex))
         ELSE IF ~IsNone(base_class_symbol)
         THEN Some(ClassPartial(Get(base_class_symbol), method_name,
                                "class_super_method", mindex))
         ELSE None

\* the branch "super().method()"
ResolveSuper(method_name, enclosing_id, table, mindex, sindex) ==
    LET class_ctx == find_enclosing_class(enclosing_id, sindex) IN
    IF IsNone(class_ctx) THEN None
    ELSE
      LET class_symbol == find_class_by_qname(Get(class_ctx).class_qualified_name, sindex)
          bases == Get(Get(class_symbol).base_classes)
          base_qname == resolve_base_class_qname(bases[1], Get(class_ctx).class_module,
                                                 table, sindex)
          base_method == find_method_in_class(Get(base_qname), method_name, sindex)
          base_class_symbol == find_class_by_qname(Get(base_qname), sindex)
      IN IF IsNone(class_symbol) \/ IsNone(Get(class_symbol).base_classes) THEN None
         ELSE IF Len(bases) # 1 THEN None
         ELSE IF IsNone(base_qname) THEN None
         ELSE IF ~IsNone(base_method)
         THEN Some(MethodResolution(Get(base_method), "class_super_method", mindex))
         ELSE IF ~IsNone(base_class_symbol)
         THEN Some(ClassPartial(Get(base_class_symbol), method_name,
                                "class_super_method", mindex))
         ELSE None

\* ResolveClassName without the test that the binding is a class
ResolveClassNameAnyResolution(receiver, parts, table, mindex, sindex) ==
    IF receiver \in DOMAIN table /\ Len(parts) = 2
    THEN LET binding == table[receiver]
             method_symbol == find_method_in_class(binding.qualified_name, parts[2], sindex)
         IN IF ~IsNone(method_symbol)
            THEN Some(MethodResolution(Get(method_symbol), "class_static_method", mindex))
            ELSE IF ~IsNone(binding.target_symbol_id) /\ Get(binding.target_symbol_id) # <<>>
            THEN Some(Resolution(None, Some(binding_to_resolved(binding, mindex)),
                                 Some(parts[2]), "class_static_method",
                                 STRATEGY_CONFIDENCE.class_static_method))
            ELSE None
    ELSE None

\* the branch "ClassName.method()"
ResolveClassName(receiver, parts, table, mindex, sindex) ==
    IF receiver \in DOMAIN table /\ table[receiver].resolution = "class" /\ Len(parts) = 2
    THEN LET binding == table[receiver]
             method_symbol == find_method_in_class(binding.qualified_name, parts[2], sindex)
         IN IF ~IsNone(method_symbol)
            THEN Some(MethodResolution(Get(method_symbol), "class_static_method", mindex))
            ELSE IF ~IsNone(binding.target_symbol_id) /\ Get(binding.target_symbol_id) # <<>>
            THEN Some(Resolution(None, Some(binding_to_resolved(binding, mindex)),
                                 Some(parts[2]), "class_static_method",
                                 STRATEGY_CONFIDENCE.class_static_method))
            ELSE None
    ELSE None

\* resolve_call_class_context(callee_expr, enclosing_symbol_id, name_table,
\*                            modules_index, symbols_index)
resolve_call_class_context(expr_in, enclosing_id, table, mindex, sindex) ==
    LET expr == Strip(expr_in)
        parts == Split(expr, DOT)
        receiver == parts[1]
    IN IF expr = <<>> THEN Returned(None)
       ELSE IF Len(parts) < 2 THEN Returned(None)
       ELSE IF receiver = <<"self">> /\ Len(parts) = 2
       THEN Returned(ResolveOnEnclosingClass(parts[2], "class_self_method",
                                             enclosing_id, mindex, sindex))
       ELSE IF receiver = <<"cls">> /\ Len(parts) = 2
       THEN Returned(ResolveOnEnclosingClass(parts[2], "class_cls_method",
                                             enclosing_id, mindex, sindex))
       ELSE IF receiver = <<"super()">> /\ Len(parts) = 2
       THEN Returned(ResolveSuper(parts[2], enclosing_id, table, mindex, sindex))
       ELSE Returned(ResolveClassName(receiver, parts, table, mindex, sindex))

----------------------------------------------------------------------------
(* The inputs of the Tier 1 runs *)

\* the longest dotted expression tried, in segments
MaxSegs == 3

P_pkg_init == <<"pkg", "/", "__init__", ".py">>

P_pkg_mod == <<"pkg", "/", "mod", ".py">>

P_src_pkg_mod == <<"src", "/", "pkg", "/", "mod", ".py">>

P_pkg_mod_sub == <<"pkg", "/", "mod", "/", "sub", ".py">>

M_pkg == <<"pkg">>

M_pkg_mod == <<"pkg", ".", "mod">>

\* the index build_modules_index gives for a set of scanned paths
IndexOf(paths) == [p \in paths |-> path_to_module(p)]

Tier1Indexes ==
    {IndexOf(ps) : ps \in SUBSET {P_pkg_init, P_pkg_mod, P_src_pkg_mod, P_pkg_mod_sub}}

\* the bindings a key of the table may have
Tier1Choices ==
    [k \in {<<"pkg">>, <<"mod">>, <<"pkg", ".", "mod">>, <<"fn">>} |->
        CASE k = <<"pkg">> ->
                {NameBinding(k, Some(<<"module:">> \o P_pkg_init), M_pkg, "module",
                             75, "module_import_module", Some(P_pkg_init), Some(M_pkg))}
          [] k = <<"mod">> ->
                {NameBinding(k, None, M_pkg_mod, "module",
                             75, "module_import_module", None, None)}
          [] k = <<"pkg", ".", "mod">> ->
                {NameBinding(k, None, <<"os">>, "imported_name",
                             80, "module_import_from", None, None)}
          [] k = <<"fn">> ->
                {NameBinding(k, Some(<<"sym:">> \o P_pkg_mod \o <<"::">> \o M_pkg_mod \o <<".", "fn", "@", "L", "1">>),
                             M_pkg_mod \o <<".", "fn">>, "function",
                             90, "module_local_def", Some(P_pkg_mod), Some(M_pkg_mod)),
                 NameBinding(k, Some(<<>>), M_pkg_mod \o <<".", "fn">>, "function",
                             60, "module_alias_assignment", Some(P_pkg_mod), Some(M_pkg_mod))}]

Tier1Tables ==
    UNION {{t \in [ks -> UNION {Tier1Choices[k] : k \in ks}] :
                \A k \in ks : t[k] \in Tier1Choices[k]} : ks \in SUBSET DOMAIN Tier1Choices}

Tier1Segs == {<<>>, <<"pkg">>, <<"mod">>, <<"sub">>, <<"fn">>}

RECURSIVE SegLists(_)
SegLists(n) ==
    IF n = 0 THEN {<<>>}
    ELSE LET shorter == SegLists(n - 1)
         IN shorter \cup {l \o <<g>> : l \in {x \in shorter : Len(x) = n - 1}, g \in Tier1Segs}

\* dotted expressions of 1..MaxSegs segments, bare or wrapped in whitespace
Tier1Exprs ==
    LET dotted == {Join(l, DOT) : l \in SegLists(MaxSegs) \ {<<>>}}
    IN dotted \cup {<<WS>> \o e \o <<WS>> : e \in dotted}

----------------------------------------------------------------------------
(* Tier 1 runs: resolve_call applied to one expression *)

InitTier1 ==
    /\ pc = "tier1"
    /\ callee_expr = <<>>
    /\ enclosing_symbol_id = None
    /\ name_table \in Tier1Tables
    /\ modules_index \in Tier1Indexes
    /\ symbols_index = <<>>
    /\ result = Returned(None)
    /\ files = <<>>
    /\ table_path = <<>>
    /\ gitignores = <<>>
    /\ config = [include |-> <<>>, exclude |-> <<>>]
    /\ out_dir = <<>>
    /\ disk = <<>>
    /\ NoDeps

CallResolveCall ==
    /\ pc = "tier1"
    /\ \E e \in Tier1Exprs :
        /\ callee_expr' = e
        /\ result' = resolve_call(e, name_table, modules_index)
    /\ pc' = "tier1_done"
    /\ UNCHANGED <<enclosing_symbol_id, index_vars, tree_vars, pipeline_vars, deps_vars>>

NextTier1 == CallResolveCall

SpecTier1 == InitTier1 /\ [][NextTier1]_vars

----------------------------------------------------------------------------
(* Tier 1 claims *)

\* what the run returned, when it returned a tuple
Tuple == Get(result.returned)

ReturnedTuple == result.raised = "" /\ ~IsNone(result.returned)

\* the stripped expression of the run and its dotted segments
Expr == Strip(callee_expr)

Parts == Split(Expr, DOT)

\* the modules the index knows
KnownModules == {modules_index[p] : p \in DOMAIN modules_index}

\* the ResolvedTo a binding stands for
BindingTarget(b) ==
    [symbol_id |-> IF b.target_symbol_id \in {None, Some(<<>>)}
                   THEN <<"ext:">> \o b.qualified_name
                   ELSE Get(b.target_symbol_id),
     qualified_name |-> b.qualified_name,
     resolution |-> b.resolution,
     confidence |-> b.confidence,
     path |-> IF b.target_path # None /\ Get(b.target_path) \in DOMAIN modules_index
              THEN b.target_path ELSE None,
     dst_module |-> IF b.target_path # None /\ Get(b.target_path) \in DOMAIN modules_index
                    THEN b.target_module ELSE None]

\* the proper prefixes of the expression that are keys of the table, by length
BoundPrefixes ==
    {i \in 1..(Len(Parts) - 1) : Join(SubSeq(Parts, 1, i), DOT) \in DOMAIN name_table}

LongestPrefix == CHOOSE i \in BoundPrefixes : \A j \in BoundPrefixes : j <= i

PrefixBinding == name_table[Join(SubSeq(Parts, 1, LongestPrefix), DOT)]

\* the base's qualified name followed by the k segments after the prefix
QualifiedAfter(k) ==
    PrefixBinding.qualified_name
        \o Concat([j \in 1..k |-> <<DOT>> \o Parts[LongestPrefix + j]])

\* how many segments after the prefix name, one after the other, a known module
ConsumedCount ==
    CHOOSE k \in 0..(Len(Parts) - LongestPrefix) :
        /\ \A j \in 1..k : QualifiedAfter(j) \in KnownModules
        /\ k < Len(Parts) - LongestPrefix => QualifiedAfter(k + 1) \notin KnownModules

\* C3: a dotted expression that is not a key resolves from its longest bound
\* proper prefix: unresolved when no prefix is bound; a full resolution to the
\* module reached when every following segment names a known module; otherwise
\* a partial resolution whose base is the prefix binding, or the deepest module
\* reached, and whose member is the unconsumed segments joined by dots.
C3_DottedPrefixResolution ==
    (pc = "tier1_done" /\ Expr # <<>> /\ Expr \notin DOMAIN name_table /\ Len(Parts) >= 2) =>
        /\ ReturnedTuple
        /\ IF BoundPrefixes = {} THEN Tuple = Unresolved
           ELSE LET k == ConsumedCount
                    rest == SubSeq(Parts, LongestPrefix + k + 1, Len(Parts))
                IN IF rest = <<>>
                   THEN /\ Tuple.resolved_to # None
                        /\ Get(Tuple.resolved_to).qualified_name = QualifiedAfter(k)
                        /\ Get(Tuple.resolved_to).resolution = "module"
                        /\ Tuple.resolved_base_to = None
                        /\ Tuple.member = None
                   ELSE /\ Tuple.resolved_to = None
                        /\ Tuple.resolved_base_to # None
                        /\ Get(Tuple.resolved_base_to).qualified_name = QualifiedAfter(k)
                        /\ k = 0 => Get(Tuple.resolved_base_to) = BindingTarget(PrefixBinding)
                        /\ k > 0 => Get(Tuple.resolved_base_to).resolution = "module"
                        /\ Tuple.member = Some(Join(rest, DOT))

\* C3 witness: with "mod" bound to pkg.mod, mod.fn came back partial with base
\* pkg.mod and member fn
C3_Witness ==
    /\ pc = "tier1_done"
    /\ callee_expr = <<"mod", ".", "fn">>
    /\ <<"mod">> \in DOMAIN name_table
    /\ ReturnedTuple
    /\ Tuple.resolved_to = None
    /\ Get(Tuple.resolved_base_to).qualified_name = M_pkg_mod
    /\ Tuple.member = Some(<<"fn">>)

\* C4: an expression that is as a whole a key of the table resolves fully to
\* that binding, with the binding's strategy and confidence, whatever its
\* prefixes are bound to.
C4_ExactMatchWins ==
    (pc = "tier1_done" /\ Expr # <<>> /\ Expr \in DOMAIN name_table) =>
        /\ ReturnedTuple
        /\ Tuple.resolved_to = Some(BindingTarget(name_table[Expr]))
        /\ Tuple.resolved_base_to = None
        /\ Tuple.member = None
        /\ Tuple.strategy = name_table[Expr].strategy
        /\ Tuple.confidence = name_table[Expr].confidence

\* C4 witness: pkg.mod is a key and so is its prefix pkg; the call resolved to
\* the binding of pkg.mod
C4_Witness ==
    /\ pc = "tier1_done"
    /\ callee_expr = <<"pkg", ".", "mod">>
    /\ {<<"pkg">>, <<"pkg", ".", "mod">>} \subseteq DOMAIN name_table
    /\ ReturnedTuple
    /\ Get(Tuple.resolved_to).qualified_name = <<"os">>
    /\ Tuple.strategy = "module_import_from"

----------------------------------------------------------------------------
(* parse/treesitter_symbols.py: the records the index is built from *)

\* symbol_id = f"sym:{relative_path}::{qualified_name}@L{start_line}:C{start_col}"
SymbolId(relative_path, qualified_name, start_line, start_col) ==
    <<"sym:">> \o relative_path \o <<"::">> \o qualified_name
        \o <<"@", "L", ToString(start_line), ":", "C", ToString(start_col)>>

\* a symbol record as build_symbols_index and _build_symbols_by_span read it:
\* the keys path, kind, name, qualified_name, symbol_id, start_line, start_col
\* and base_classes; an empty list and an absent list are both <<>> here, as
\* build_symbols_index maps both to None
symbol_record(relative_path, kind, name, qualified_name, start_line, start_col, bases) ==
    [path |-> relative_path,
     kind |-> kind,
     name |-> name,
     qualified_name |-> qualified_name,
     symbol_id |-> SymbolId(relative_path, qualified_name, start_line, start_col),
     start_line |-> start_line,
     start_col |-> start_col,
     base_classes |-> IF kind = "class" THEN bases ELSE <<>>]

\* _create_symbol_record: the extracted base classes are passed to SymbolRecord,
\* which declares no base_classes field and keeps none
create_symbol_record(relative_path, kind, name, qualified_name, start_line, start_col, bases) ==
    [symbol_record(relative_path, kind, name, qualified_name, start_line, start_col, bases)
        EXCEPT !.base_classes = <<>>]

\* parse/treesitter_calls.py: the raw ids of the call extractor
raw_symbol_id(relative_path, name, start_line, start_col) ==
    <<"symbol:">> \o relative_path \o <<":">> \o name
        \o <<"@", "L", ToString(start_line), ":", "C", ToString(start_col)>>

raw_module_symbol_id(relative_path) == <<"module:">> \o relative_path

----------------------------------------------------------------------------
(* The inputs of the Tier 2 runs: the file pkg/mod.py

     class A:                 (optional, with or without m)
         def m(self): ...
     class B(<bases>):        (optional)
         def f(self): ...
     def g(): ...
*)

\* the longest base-class list of class B
MaxBases == 2

Q_A == M_pkg_mod \o <<".", "A">>

Q_B == M_pkg_mod \o <<".", "B">>

Q_g == M_pkg_mod \o <<".", "g">>

RecModule == symbol_record(P_pkg_mod, "module", <<"mod">>, M_pkg_mod, 1, 1, <<>>)

RecA == symbol_record(P_pkg_mod, "class", <<"A">>, Q_A, 1, 1, <<>>)

RecAm == symbol_record(P_pkg_mod, "method", <<"m">>, Q_A \o <<".", "m">>, 2, 5, <<>>)

RecB(bases) == symbol_record(P_pkg_mod, "class", <<"B">>, Q_B, 4, 1, bases)

RecBf == symbol_record(P_pkg_mod, "method", <<"f">>, Q_B \o <<".", "f">>, 5, 5, <<>>)

RecG == symbol_record(P_pkg_mod, "function", <<"g">>, Q_g, 7, 1, <<>>)

\* base-class lists of up to MaxBases names
RECURSIVE BaseLists(_)
BaseLists(n) ==
    IF n = 0 THEN {<<>>}
    ELSE LET shorter == BaseLists(n - 1)
         IN shorter \cup {l \o <<b>> : l \in {x \in shorter : Len(x) = n - 1},
                                       b \in {<<"A">>, <<"X">>}}

\* the symbol records of the file, in the extractor's order
Tier2Records ==
    {<<RecModule>> \o a \o b \o <<RecG>> :
        a \in {<<>>, <<RecA>>, <<RecA, RecAm>>},
        b \in {<<>>} \cup {<<RecB(bases), RecBf>> : bases \in BaseLists(MaxBases)}}

Tier2Indexes == {IndexOf({P_pkg_mod}), IndexOf({P_pkg_init})}

\* the bindings build_name_table writes for a key: a local definition, a
\* member import, a whole-module import, a trivial alias
Tier2Choices ==
    [k \in {<<"A">>, <<"X">>, <<"cls">>, <<"g">>, <<"pkg">>} |->
        CASE k = <<"A">> ->
                {NameBinding(k, Some(RecA.symbol_id), Q_A, "class",
                             90, "module_local_def", Some(P_pkg_mod), Some(M_pkg_mod)),
                 NameBinding(k, None, <<"os", ".", "A">>, "imported_name",
                             80, "module_import_from", None, None)}
          [] k = <<"X">> ->
                {NameBinding(k, Some(RecA.symbol_id), Q_A, "class",
                             80, "module_import_from", Some(P_pkg_mod), Some(M_pkg_mod))}
          [] k = <<"cls">> ->
                {NameBinding(k, Some(RecA.symbol_id), Q_A, "class",
                             60, "module_alias_assignment", Some(P_pkg_mod), Some(M_pkg_mod))}
          [] k = <<"g">> ->
                {NameBinding(k, Some(RecG.symbol_id), Q_g, "function",
                             90, "module_local_def", Some(P_pkg_mod), Some(M_pkg_mod))}
          [] k = <<"pkg">> ->
                {NameBinding(k, None, M_pkg, "module",
                             75, "module_import_module", None, None)}]

\* g and pkg are always bound; A, X and cls may be
Tier2Tables ==
    UNION {{t \in [ks -> UNION {Tier2Choices[k] : k \in ks}] :
                \A k \in ks : t[k] \in Tier2Choices[k]} :
           ks \in {{<<"g">>, <<"pkg">>} \cup opt : opt \in SUBSET {<<"A">>, <<"X">>, <<"cls">>}}}

Tier2Receivers ==
    {<<"self">>, <<"cls">>, <<"super()">>, <<"A">>, <<"X">>, <<"g">>, <<"pkg">>, <<"zz">>}

\* a receiver alone, receiver.m, receiver.f, and these followed by .m up to
\* MaxSegs segments; the empty and the blank expression; the two-segment ones
\* wrapped in whitespace
Tier2Exprs ==
    LET tails == {<<>>} \cup
                 {<<x>> \o [i \in 1..n |-> <<"m">>] :
                     x \in {<<"m">>, <<"f">>}, n \in 0..(MaxSegs - 2)}
        dotted == {Join(<<r>> \o t, DOT) : r \in Tier2Receivers, t \in tails}
    IN dotted \cup {<<>>, <<WS>>}
         \cup {<<WS>> \o e \o <<WS>> : e \in {d \in dotted : Len(d) = 3}}

\* the enclosing ids tried, each with the qualified name of the symbol's
\* parent when the id is a canonical one
Tier2Enclosing ==
    {[id |-> None, parent |-> None],
     [id |-> Some(<<>>), parent |-> None],
     [id |-> Some(RecBf.symbol_id), parent |-> Some(Q_B)],
     [id |-> Some(RecAm.symbol_id), parent |-> Some(Q_A)],
     [id |-> Some(RecG.symbol_id), parent |-> Some(M_pkg_mod)],
     [id |-> Some(RecModule.symbol_id), parent |-> Some(M_pkg)],
     [id |-> Some(raw_symbol_id(P_pkg_mod, <<"f">>, 5, 4)), parent |-> None],
     [id |-> Some(raw_module_symbol_id(P_pkg_mod)), parent |-> None]}

----------------------------------------------------------------------------
(* Tier 2 runs: resolve_call_class_context applied to one call site *)

InitTier2 ==
    /\ pc = "tier2"
    /\ callee_expr = <<>>
    /\ enclosing_symbol_id = None
    /\ name_table \in Tier2Tables
    /\ modules_index \in Tier2Indexes
    /\ \E recs \in Tier2Records : symbols_index = build_symbols_index(recs, modules_index)
    /\ result = Returned(None)
    /\ files = <<>>
    /\ table_path = <<>>
    /\ gitignores = <<>>
    /\ config = [include |-> <<>>, exclude |-> <<>>]
    /\ out_dir = <<>>
    /\ disk = <<>>
    /\ NoDeps

CallResolveClassContext ==
    /\ pc = "tier2"
    /\ \E e \in Tier2Exprs, enc \in Tier2Enclosing :
        /\ callee_expr' = e
        /\ enclosing_symbol_id' = enc.id
        /\ result' = resolve_call_class_context(e, enc.id, name_table,
                                                modules_index, symbols_index)
    /\ pc' = "tier2_done"
    /\ UNCHANGED <<index_vars, tree_vars, pipeline_vars, deps_vars>>

NextTier2 == CallResolveClassContext

SpecTier2 == InitTier2 /\ [][NextTier2]_vars

----------------------------------------------------------------------------
(* Tier 2 claims *)

KnownClasses ==
    {symbols_index[i].qualified_name :
        i \in {j \in 1..Len(symbols_index) : symbols_index[j].kind = "class"}}

KnownMethods ==
    {symbols_index[i].qualified_name :
        i \in {j \in 1..Len(symbols_index) : symbols_index[j].kind = "method"}}

\* the symbol ids the index holds for a qualified name of a kind
IdsOf(qname, kind) ==
    {symbols_index[i].symbol_id :
        i \in {j \in 1..Len(symbols_index) :
                 symbols_index[j].kind = kind /\ symbols_index[j].qualified_name = qname}}

Receiver == Parts[1]

Method == Parts[2]

ReservedReceivers == {<<"self">>, <<"cls">>, <<"super()">>}

\* the parent qualified name of the enclosing symbol, when the id of the run is
\* a canonical one
EnclosingParent ==
    (CHOOSE e \in Tier2Enclosing : e.id = enclosing_symbol_id).parent

\* the enclosing class: the parent, when it is a known class
EnclosingClass ==
    IF EnclosingParent # None /\ Get(EnclosingParent) \in KnownClasses
    THEN EnclosingParent ELSE None

\* the base-class names of a known class
BasesOf(class_qname) ==
    LET s == CHOOSE x \in Range(symbols_index) :
                x.kind = "class" /\ x.qualified_name = class_qname
    IN IF s.base_classes = None THEN <<>> ELSE Get(s.base_classes)

\* the module of a known class
ModuleOf(class_qname) ==
    LET s == CHOOSE x \in Range(symbols_index) :
                x.kind = "class" /\ x.qualified_name = class_qname
    IN modules_index[s.path]

\* what a base-class name stands for: its binding in the name table, else the
\* class of that name in the module of the enclosing class
BaseQname(base_name, class_qname) ==
    IF base_name \in DOMAIN name_table THEN name_table[base_name].qualified_name
    ELSE ModuleOf(class_qname) \o <<DOT>> \o base_name

\* the single base of the enclosing class resolved to a known class, or None
SingleKnownBase ==
    IF EnclosingClass = None THEN None
    ELSE LET bases == BasesOf(Get(EnclosingClass))
         IN IF Len(bases) = 1 /\ BaseQname(bases[1], Get(EnclosingClass)) \in KnownClasses
            THEN Some(BaseQname(bases[1], Get(EnclosingClass)))
            ELSE None

\* the run returned a full resolution to the method qname, with this strategy
\* and confidence
FullToMethod(qname, strategy, confidence) ==
    /\ ReturnedTuple
    /\ Tuple.resolved_to # None
    /\ Get(Tuple.resolved_to).qualified_name = qname
    /\ Get(Tuple.resolved_to).symbol_id \in IdsOf(qname, "method")
    /\ Get(Tuple.resolved_to).resolution = "method"
    /\ Tuple.resolved_base_to = None
    /\ Tuple.member = None
    /\ Tuple.strategy = strategy
    /\ Tuple.confidence = confidence

\* the run returned a partial resolution on the class qname, with the called
\* name as member
PartialOnClass(qname, strategy, confidence) ==
    /\ ReturnedTuple
    /\ Tuple.resolved_to = None
    /\ Tuple.resolved_base_to # None
    /\ Get(Tuple.resolved_base_to).qualified_name = qname
    /\ Get(Tuple.resolved_base_to).resolution = "class"
    /\ Tuple.member = Some(Method)
    /\ Tuple.strategy = strategy
    /\ Tuple.confidence = confidence

Tier2Done == pc = "tier2_done" /\ result.raised = ""

\* C7: self.m and cls.m inside a method of a known class C that has a method m
\* resolve fully to C.m, resolution "method", strategy class_self_method,
\* respectively class_cls_method, confidence 70; with no enclosing class (null
\* or empty id, non-canonical id, parent not a class) the result is None.
C7_SelfClsResolveOnEnclosingClass ==
    (pc = "tier2_done" /\ Len(Parts) = 2 /\ Receiver \in {<<"self">>, <<"cls">>}) =>
        /\ result.raised = ""
        /\ (EnclosingClass # None
              /\ Get(EnclosingClass) \o <<DOT>> \o Method \in KnownMethods)
           => FullToMethod(Get(EnclosingClass) \o <<DOT>> \o Method,
                           IF Receiver = <<"self">> THEN "class_self_method"
                           ELSE "class_cls_method", 70)
        /\ EnclosingClass = None => result.returned = None

\* C7 witness: cls.f inside B.f, B a known class, came back as B.f
C7_Witness ==
    /\ Tier2Done
    /\ callee_expr = <<"cls", ".", "f">>
    /\ enclosing_symbol_id = Some(RecBf.symbol_id)
    /\ Q_B \in KnownClasses
    /\ ReturnedTuple
    /\ Tuple.resolved_to # None
    /\ Get(Tuple.resolved_to).qualified_name = Q_B \o <<".", "f">>
    /\ Tuple.strategy = "class_cls_method"

\* C8: super().m gives a result only when the enclosing class has exactly one
\* base; when that base stands (through the name table, else as a class of the
\* module of the enclosing class) for a known class with a method m, the result
\* is a full resolution to Base.m with strategy class_super_method, confidence
\* 65; with no base or more than one base the result is None.
C8_SuperNeedsExactlyOneBase ==
    (pc = "tier2_done" /\ Len(Parts) = 2 /\ Receiver = <<"super()">>) =>
        /\ result.raised = ""
        /\ result.returned # None =>
              EnclosingClass # None /\ Len(BasesOf(Get(EnclosingClass))) = 1
        /\ (SingleKnownBase # None
              /\ Get(SingleKnownBase) \o <<DOT>> \o Method \in KnownMethods)
           => FullToMethod(Get(SingleKnownBase) \o <<DOT>> \o Method,
                           "class_super_method", 65)
        /\ (EnclosingClass # None /\ Len(BasesOf(Get(EnclosingClass))) # 1)
           => result.returned = None

\* C8 witness: super().m inside B.f with class B(A), A unbound in the table,
\* came back as A.m
C8_Witness ==
    /\ Tier2Done
    /\ callee_expr = <<"super()", ".", "m">>
    /\ enclosing_symbol_id = Some(RecBf.symbol_id)
    /\ <<"A">> \notin DOMAIN name_table
    /\ Q_B \in KnownClasses
    /\ BasesOf(Q_B) = <<(<<"A">>)>>
    /\ ReturnedTuple
    /\ Tuple.resolved_to # None
    /\ Get(Tuple.resolved_to).qualified_name = Q_A \o <<".", "m">>
    /\ Tuple.strategy = "class_super_method"

\* C9: Name.m, Name a class name (not one of the receivers self, cls, super()
\* of the other shapes): bound with resolution "class" to a class that has a
\* method m, the result is a full resolution to that method with strategy
\* class_static_method, confidence 75; unbound, or bound with another
\* resolution, the result is None.
C9_ClassNameResolution ==
    (pc = "tier2_done" /\ Len(Parts) = 2 /\ Receiver \notin ReservedReceivers) =>
        /\ result.raised = ""
        /\ (Receiver \in DOMAIN name_table
              /\ name_table[Receiver].resolution = "class"
              /\ name_table[Receiver].qualified_name \o <<DOT>> \o Method \in KnownMethods)
           => FullToMethod(name_table[Receiver].qualified_name \o <<DOT>> \o Method,
                           "class_static_method", 75)
        /\ (Receiver \notin DOMAIN name_table
              \/ name_table[Receiver].resolution # "class")
           => result.returned = None

\* C9 witness: X.m with X a member import of class A came back as A.m
C9_Witness ==
    /\ Tier2Done
    /\ callee_expr = <<"X", ".", "m">>
    /\ <<"X">> \in DOMAIN name_table
    /\ name_table[<<"X">>].resolution = "class"
    /\ ReturnedTuple
    /\ Tuple.resolved_to # None
    /\ Get(Tuple.resolved_to).qualified_name = Q_A \o <<".", "m">>
    /\ Tuple.strategy = "class_static_method"
    /\ Tuple.confidence = 75

\* C10: in each of the four shapes, when the class is identified but has no
\* known method of the called name, the result is partial: resolved_to null,
\* resolved_base_to the class (resolution "class"), member the called name,
\* with the strategy and confidence of the shape.
C10_PartialOnMissingMethod ==
    (pc = "tier2_done" /\ Len(Parts) = 2) =>
        /\ (Receiver \in {<<"self">>, <<"cls">>}
              /\ EnclosingClass # None
              /\ Get(EnclosingClass) \o <<DOT>> \o Method \notin KnownMethods)
           => /\ PartialOnClass(Get(EnclosingClass),
                                IF Receiver = <<"self">> THEN "class_self_method"
                                ELSE "class_cls_method", 70)
              /\ Get(Tuple.resolved_base_to).symbol_id \in IdsOf(Get(EnclosingClass), "class")
        /\ (Receiver = <<"super()">>
              /\ SingleKnownBase # None
              /\ Get(SingleKnownBase) \o <<DOT>> \o Method \notin KnownMethods)
           => /\ PartialOnClass(Get(SingleKnownBase), "class_super_method", 65)
              /\ Get(Tuple.resolved_base_to).symbol_id \in IdsOf(Get(SingleKnownBase), "class")
        /\ (Receiver \notin ReservedReceivers
              /\ Receiver \in DOMAIN name_table
              /\ name_table[Receiver].resolution = "class"
              /\ name_table[Receiver].qualified_name \o <<DOT>> \o Method \notin KnownMethods)
           => /\ PartialOnClass(name_table[Receiver].qualified_name,
                                "class_static_method", 75)
              /\ Some(Get(Tuple.resolved_base_to).symbol_id)
                    = name_table[Receiver].target_symbol_id

\* C10 witness: super().f inside B.f with class B(X), X bound to class A
\* which has no f, came back partial on A with member f
C10_Witness ==
    /\ Tier2Done
    /\ callee_expr = <<"super()", ".", "f">>
    /\ enclosing_symbol_id = Some(RecBf.symbol_id)
    /\ Q_B \in KnownClasses
    /\ BasesOf(Q_B) = <<(<<"X">>)>>
    /\ ReturnedTuple
    /\ Tuple.resolved_to = None
    /\ Tuple.resolved_base_to # None
    /\ Get(Tuple.resolved_base_to).qualified_name = Q_A
    /\ Tuple.member = Some(<<"f">>)
    /\ Tuple.confidence = 65

----------------------------------------------------------------------------
(* parse/ast_imports.py and parse/name_resolution.py: the name-table builder *)

\* resolve_relative_import stripping one component less than `level`
resolve_relative_import_one_less(importing_module, relative_module, level) ==
    LET parts == Split(importing_module, DOT)
        base_parts == SubSeq(parts, 1, Len(parts) - level + 1)
    IN IF level > Len(parts)
       THEN (IF relative_module # <<>> THEN relative_module ELSE importing_module)
       ELSE IF relative_module # <<>> THEN Join(base_parts \o <<relative_module>>, DOT)
       ELSE IF base_parts # <<>> THEN Join(base_parts, DOT)
       ELSE importing_module

\* resolve_relative_import(importing_module, relative_module, level)
resolve_relative_import(importing_module, relative_module, level) ==
    LET parts == Split(importing_module, DOT)
        base_parts == SubSeq(parts, 1, Len(parts) - level)
    IN IF level > Len(parts)
       THEN (IF relative_module # <<>> THEN relative_module ELSE importing_module)
       ELSE IF relative_module # <<>> THEN Join(base_parts \o <<relative_module>>, DOT)
       ELSE IF base_parts # <<>> THEN Join(base_parts, DOT)
       ELSE importing_module

\* _parse_import_name("name as alias") -> <<name, alias>>, alias = name by default
parse_import_name(name_str) ==
    LET i == Find(name_str, " as ")
    IN IF i # 0
       THEN <<Strip(SubSeq(name_str, 1, i - 1)), Strip(SubSeq(name_str, i + 1, Len(name_str)))>>
       ELSE <<Strip(name_str), Strip(name_str)>>

\* symbols_index.get(module_name, [])
SymbolsOf(module_name, sindex) ==
    SelectSeqBy(sindex, {x \in Range(sindex) : x.module = module_name})

\* _build_symbol_lookup, first result: qualified name -> the first symbol of
\* that name, modules taken in sorted order
symbols_by_qualified_name(sindex) ==
    LET mods == SortedStrs({x.module : x \in Range(sindex)})
        ordered == Concat([k \in 1..Len(mods) |-> SymbolsOf(mods[k], sindex)])
    IN [q \in {x.qualified_name : x \in Range(sindex)} |->
            ordered[CHOOSE i \in 1..Len(ordered) :
                        /\ ordered[i].qualified_name = q
                        /\ \A j \in 1..(i - 1) : ordered[j].qualified_name # q]]

\* _build_symbol_lookup, second result: module name -> a module SymbolInfo,
\* for the modules of the symbols index that have a path
module_symbols(sindex, mindex) ==
    LET module_to_path == invert_modules_index(mindex)
    IN [m \in {x.module : x \in Range(sindex)} \cap DOMAIN module_to_path |->
            SymbolInfo(<<"module:">> \o module_to_path[m], m,
                       RSplit1(m, DOT)[Len(RSplit1(m, DOT))], "module",
                       module_to_path[m], None, m)]

\* _is_top_level_local_def(module_name, symbol)
is_top_level_local_def(module_name, symbol) ==
    LET prefix == module_name \o <<DOT>>
        remainder == SubSeq(symbol.qualified_name, Len(prefix) + 1,
                            Len(symbol.qualified_name))
    IN /\ symbol.kind \in {"function", "class"}
       /\ StartsWith(symbol.qualified_name, prefix)
       /\ Find(remainder, DOT) = 0

\* table[local_name] = binding
Bind(table, binding) ==
    [k \in DOMAIN table \cup {binding.local_name} |->
        IF k = binding.local_name THEN binding ELSE table[k]]

\* _add_local_def_bindings(table, module_name, symbols_index), with the
\* symbols of the module passed as a list
RECURSIVE add_local_def_bindings(_, _, _)
add_local_def_bindings(table, module_name, symbols) ==
    IF symbols = <<>> THEN table
    ELSE LET before == add_local_def_bindings(table, module_name,
                                              SubSeq(symbols, 1, Len(symbols) - 1))
             symbol == symbols[Len(symbols)]
         IN IF is_top_level_local_def(module_name, symbol)
            THEN Bind(before, NameBinding(symbol.name, Some(symbol.symbol_id),
                                          symbol.qualified_name, symbol.kind,
                                          STRATEGY_CONFIDENCE.module_local_def,
                                          "module_local_def",
                                          Some(symbol.path), Some(module_name)))
            ELSE before

\* _add_import_module_bindings; an entry is <<line, module, asname, level>>
RECURSIVE add_import_module_bindings(_, _, _, _)
add_import_module_bindings(table, entries, module_to_path, msymbols) ==
    IF entries = <<>> THEN table
    ELSE LET before == add_import_module_bindings(table, SubSeq(entries, 1, Len(entries) - 1),
                                                  module_to_path, msymbols)
             imported_module == entries[Len(entries)][2]
             asname == entries[Len(entries)][3]
             top_level_module == Split(imported_module, DOT)[1]
             local_name == IF asname # <<>> THEN asname ELSE top_level_module
             target_module == IF asname # <<>> THEN imported_module ELSE top_level_module
             has_path == target_module \in DOMAIN module_to_path
         IN Bind(before,
                 NameBinding(local_name,
                             IF target_module \in DOMAIN msymbols
                             THEN Some(msymbols[target_module].symbol_id) ELSE None,
                             target_module, "module",
                             STRATEGY_CONFIDENCE.module_import_module,
                             "module_import_module",
                             IF has_path THEN Some(module_to_path[target_module]) ELSE None,
                             IF has_path THEN Some(target_module) ELSE None))

\* the binding both member-import passes write for a qualified name
ImportFromBinding(local_name, qualified_name, by_qname, mindex) ==
    IF qualified_name \in DOMAIN by_qname
    THEN NameBinding(local_name, Some(by_qname[qualified_name].symbol_id), qualified_name,
                     by_qname[qualified_name].kind,
                     STRATEGY_CONFIDENCE.module_import_from, "module_import_from",
                     Some(by_qname[qualified_name].path),
                     IndexGet(mindex, by_qname[qualified_name].path))
    ELSE NameBinding(local_name, None, qualified_name, "imported_name",
                     STRATEGY_CONFIDENCE.module_import_from, "module_import_from",
                     None, None)

\* _add_import_from_bindings; an entry is <<line, module, "name as alias", level>>
RECURSIVE add_import_from_bindings(_, _, _, _)
add_import_from_bindings(table, entries, by_qname, mindex) ==
    IF entries = <<>> THEN table
    ELSE LET before == add_import_from_bindings(table, SubSeq(entries, 1, Len(entries) - 1),
                                                by_qname, mindex)
             imported_module == entries[Len(entries)][2]
             parsed == parse_import_name(entries[Len(entries)][3])
             qualified_name == IF imported_module # <<>>
                               THEN imported_module \o <<DOT>> \o parsed[1]
                               ELSE parsed[1]
         IN Bind(before, ImportFromBinding(parsed[2], qualified_name, by_qname, mindex))

\* _add_relative_import_bindings
RECURSIVE add_relative_import_bindings(_, _, _, _, _)
add_relative_import_bindings(table, entries, module_name, by_qname, mindex) ==
    IF entries = <<>> THEN table
    ELSE LET before == add_relative_import_bindings(table,
                                                    SubSeq(entries, 1, Len(entries) - 1),
                                                    module_name, by_qname, mindex)
             parsed == parse_import_name(entries[Len(entries)][3])
             resolved_module == resolve_relative_import(module_name,
                                                        entries[Len(entries)][2],
                                                        entries[Len(entries)][4])
             qualified_name == IF resolved_module # <<>>
                               THEN resolved_module \o <<DOT>> \o parsed[1]
                               ELSE parsed[1]
         IN Bind(before, ImportFromBinding(parsed[2], qualified_name, by_qname, mindex))

\* _add_trivial_alias_bindings, with the aliases _extract_trivial_aliases
\* reads from the file passed as a list of <<alias_name, source_name>>
RECURSIVE add_trivial_alias_bindings(_, _)
add_trivial_alias_bindings(table, aliases) ==
    IF aliases = <<>> THEN table
    ELSE LET before == add_trivial_alias_bindings(table, SubSeq(aliases, 1, Len(aliases) - 1))
             alias_name == aliases[Len(aliases)][1]
             source_name == aliases[Len(aliases)][2]
         IN IF source_name \notin DOMAIN before THEN before
            ELSE Bind(before,
                      NameBinding(alias_name, before[source_name].target_symbol_id,
                                  before[source_name].qualified_name,
                                  before[source_name].resolution,
                                  STRATEGY_CONFIDENCE.module_alias_assignment,
                                  "module_alias_assignment",
                                  before[source_name].target_path,
                                  before[source_name].target_module))

\* build_name_table with the local definitions bound after the imports
build_name_table_defs_after_imports(path, mindex, sindex, imports, aliases) ==
    IF path \notin DOMAIN mindex THEN <<>>
    ELSE LET module_name == mindex[path]
             module_to_path == invert_modules_index(mindex)
             by_qname == symbols_by_qualified_name(sindex)
             msymbols == module_symbols(sindex, mindex)
             t2 == add_import_module_bindings(<<>>, imports["import"], module_to_path, msymbols)
             t3 == add_import_from_bindings(t2, imports["import_from"], by_qname, mindex)
             t4 == add_relative_import_bindings(t3, imports["relative_import"],
                                                module_name, by_qname, mindex)
             t1 == add_local_def_bindings(t4, module_name, SymbolsOf(module_name, sindex))
         IN add_trivial_alias_bindings(t1, aliases)

\* build_name_table(file_path, modules_index, symbols_index, imports, repo_root);
\* aliases is what the file at repo_root / file_path holds
build_name_table(path, mindex, sindex, imports, aliases) ==
    IF path \notin DOMAIN mindex THEN <<>>
    ELSE LET module_name == mindex[path]
             module_to_path == invert_modules_index(mindex)
             by_qname == symbols_by_qualified_name(sindex)
             msymbols == module_symbols(sindex, mindex)
             t1 == add_local_def_bindings(<<>>, module_name, SymbolsOf(module_name, sindex))
             t2 == add_import_module_bindings(t1, imports["import"], module_to_path, msymbols)
             t3 == add_import_from_bindings(t2, imports["import_from"], by_qname, mindex)
             t4 == add_relative_import_bindings(t3, imports["relative_import"],
                                                module_name, by_qname, mindex)
         IN add_trivial_alias_bindings(t4, aliases)

----------------------------------------------------------------------------
(* The inputs of the name-table runs: pkg/__init__.py, which may define fn,
   and pkg/mod.py: class A with a method m, up to two definitions of fn, and
   up to MaxStmts import and alias statements *)

\* the most import and alias statements of pkg/mod.py
MaxStmts == 3

Q_fn == M_pkg_mod \o <<".", "fn">>

RecInitModule == symbol_record(P_pkg_init, "module", <<"pkg">>, M_pkg, 1, 1, <<>>)

RecInitFn == symbol_record(P_pkg_init, "function", <<"fn">>, M_pkg \o <<".", "fn">>, 1, 1, <<>>)

RecFn == symbol_record(P_pkg_mod, "function", <<"fn">>, Q_fn, 4, 1, <<>>)

RecFnAgain == symbol_record(P_pkg_mod, "function", <<"fn">>, Q_fn, 6, 1, <<>>)

\* a statement of the file: the key extract_imports files it under ("alias"
\* for what _extract_trivial_aliases reads) and the tuple recorded
Stmt(kind, entry) == [kind |-> kind, entry |-> entry]

TableStmts ==
    {Stmt("import", <<1, <<"os">>, <<"fn">>, 0>>),                  \* import os as fn
     Stmt("import", <<1, M_pkg_mod, <<>>, 0>>),                     \* import pkg.mod
     Stmt("import_from", <<1, M_pkg, <<"fn">>, 0>>),                \* from pkg import fn
     Stmt("import_from", <<1, <<"os">>, <<"fn", " as ", "A">>, 0>>),  \* from os import fn as A
     Stmt("relative_import", <<1, <<>>, <<"fn">>, 1>>),             \* from . import fn
     Stmt("relative_import", <<1, <<"mod">>, <<"A", " as ", "fn">>, 1>>), \* from .mod import A as fn
     Stmt("alias", <<(<<"x">>), (<<"fn">>)>>),                      \* x = fn
     Stmt("alias", <<(<<"fn">>), (<<"A">>)>>),                      \* fn = A
     Stmt("alias", <<(<<"A">>), (<<"zz">>)>>)}                      \* A = zz

RECURSIVE StmtLists(_)
StmtLists(n) ==
    IF n = 0 THEN {<<>>}
    ELSE LET shorter == StmtLists(n - 1)
         IN shorter \cup {l \o <<st>> : l \in {x \in shorter : Len(x) = n - 1},
                                        st \in TableStmts}

\* the entries of one kind, in statement order
RECURSIVE EntriesOf(_, _)
EntriesOf(stmts, kind) ==
    IF stmts = <<>> THEN <<>>
    ELSE IF Head(stmts).kind = kind
    THEN <<Head(stmts).entry>> \o EntriesOf(Tail(stmts), kind)
    ELSE EntriesOf(Tail(stmts), kind)

\* extract_imports(file_path): the imports of the file by kind
extract_imports(file) ==
    [k \in {"import", "import_from", "import_star", "relative_import"} |->
        EntriesOf(file.stmts, k)]

\* _extract_trivial_aliases(file_path, repo_root)
extract_trivial_aliases(file) == EntriesOf(file.stmts, "alias")

\* what the extractors read from a file
SourceFile(records, stmts, calls) == [records |-> records, stmts |-> stmts, calls |-> calls]

TableTrees ==
    {[p \in {P_pkg_init, P_pkg_mod} |->
        IF p = P_pkg_init THEN SourceFile(defs[1], <<>>, <<>>)
        ELSE SourceFile(<<RecModule, RecA, RecAm>> \o defs[2], stmts, <<>>)] :
     defs \in {<<(<<RecInitModule>>), <<>> >>,
               <<(<<RecInitModule, RecInitFn>>), <<RecFn>> >>,
               <<(<<RecInitModule, RecInitFn>>), <<RecFn, RecFnAgain>> >>},
     stmts \in StmtLists(MaxStmts)}

\* the symbol records of a tree in path order
RecordsOf(tree) ==
    LET paths == SortedStrs(DOMAIN tree)
    IN Concat([i \in 1..Len(paths) |-> tree[paths[i]].records])

----------------------------------------------------------------------------
(* Name-table runs: build_name_table applied to one file of the tree *)

InitTable ==
    /\ pc = "table"
    /\ callee_expr = <<>>
    /\ enclosing_symbol_id = None
    /\ result = Returned(None)
    /\ files \in TableTrees
    /\ modules_index = IndexOf(DOMAIN files)
    /\ symbols_index = build_symbols_index(RecordsOf(files), modules_index)
    /\ name_table = <<>>
    /\ table_path = <<>>
    /\ gitignores = <<>>
    /\ config = [include |-> <<>>, exclude |-> <<>>]
    /\ out_dir = <<>>
    /\ disk = <<>>
    /\ NoDeps

CallBuildNameTable ==
    /\ pc = "table"
    /\ \E path \in DOMAIN files \cup {P_pkg_mod_sub} :
        /\ table_path' = path
        /\ name_table' = build_name_table(
                path, modules_index, symbols_index,
                IF path \in DOMAIN files THEN extract_imports(files[path])
                ELSE extract_imports(SourceFile(<<>>, <<>>, <<>>)),
                IF path \in DOMAIN files THEN extract_trivial_aliases(files[path])
                ELSE <<>>)
    /\ pc' = "table_done"
    /\ UNCHANGED <<resolver_vars, modules_index, symbols_index, files, gitignores, pipeline_vars,
                 deps_vars>>

NextTable == CallBuildNameTable

SpecTable == InitTable /\ [][NextTable]_vars

----------------------------------------------------------------------------
(* Name-table claims *)

\* one write of a pass to the table: the pass, the local name written, the
\* qualified name bound and, for a local definition, the symbol bound
Write(pass, name, qualified, symbol_id) ==
    [pass |-> pass, name |-> name, qualified |-> qualified, symbol_id |-> symbol_id]

TableModule == modules_index[table_path]

\* the last write of a log to a name
LastWrite(ws, name) ==
    ws[CHOOSE i \in 1..Len(ws) :
          ws[i].name = name /\ \A j \in (i + 1)..Len(ws) : ws[j].name # name]

\* pass 1: the top-level functions and classes of the module, as listed
LocalDefWrites ==
    LET symbols == SymbolsOf(TableModule, symbols_index)
    IN Concat([i \in 1..Len(symbols) |->
                 IF /\ symbols[i].kind \in {"function", "class"}
                    /\ symbols[i].qualified_name = TableModule \o <<DOT>> \o symbols[i].name
                 THEN <<Write(1, symbols[i].name, symbols[i].qualified_name,
                              Some(symbols[i].symbol_id))>>
                 ELSE <<>>])

\* pass 2: "import m as z" binds z to m, "import a.b" binds a to a
ImportModuleWrites ==
    LET es == extract_imports(files[table_path])["import"]
    IN [i \in 1..Len(es) |->
          IF es[i][3] # <<>> THEN Write(2, es[i][3], es[i][2], None)
          ELSE Write(2, <<es[i][2][1]>>, <<es[i][2][1]>>, None)]

\* the name imported and the local name of "x" and of "x as y"
ImportedName(name_alias) == <<name_alias[1]>>

LocalName(name_alias) == <<name_alias[Len(name_alias)]>>

\* pass 3: "from m import x as y" binds y to m.x
ImportFromWrites ==
    LET es == extract_imports(files[table_path])["import_from"]
    IN [i \in 1..Len(es) |->
          Write(3, LocalName(es[i][3]),
                es[i][2] \o <<DOT>> \o ImportedName(es[i][3]), None)]

\* pass 4: the same with the module resolved relative to the importing one
RelativeImportWrites ==
    LET es == extract_imports(files[table_path])["relative_import"]
    IN [i \in 1..Len(es) |->
          Write(4, LocalName(es[i][3]),
                resolve_relative_import(TableModule, es[i][2], es[i][4])
                    \o <<DOT>> \o ImportedName(es[i][3]), None)]

\* pass 5: "t = s" binds t to what s is bound to when the alias is reached,
\* and writes nothing when s is unbound then
RECURSIVE WithAliasWrites(_, _)
WithAliasWrites(ws, aliases) ==
    IF aliases = <<>> THEN ws
    ELSE IF \E i \in 1..Len(ws) : ws[i].name = Head(aliases)[2]
    THEN WithAliasWrites(
            ws \o <<Write(5, Head(aliases)[1],
                          LastWrite(ws, Head(aliases)[2]).qualified,
                          LastWrite(ws, Head(aliases)[2]).symbol_id)>>,
            Tail(aliases))
    ELSE WithAliasWrites(ws, Tail(aliases))

\* every write of the five passes, in the order of the passes
AllWrites ==
    WithAliasWrites(LocalDefWrites \o ImportModuleWrites \o ImportFromWrites
                        \o RelativeImportWrites,
                    extract_trivial_aliases(files[table_path]))

PassConfidence == <<90, 75, 80, 80, 60>>

PassStrategy ==
    <<"module_local_def", "module_import_module", "module_import_from",
      "module_import_from", "module_alias_assignment">>

\* C6: the table holds exactly the names the five passes write, and each name
\* is bound as the last write to it left it, the passes taken in the order
\* local definitions (90), whole-module imports (75), member imports (80),
\* relative member imports (80), trivial aliases (60).
C6_FivePassesLastWriterWins ==
    (pc = "table_done" /\ table_path \in DOMAIN modules_index) =>
        /\ DOMAIN name_table = {AllWrites[i].name : i \in 1..Len(AllWrites)}
        /\ \A k \in DOMAIN name_table :
              LET w == LastWrite(AllWrites, k)
              IN /\ name_table[k].local_name = k
                 /\ name_table[k].confidence = PassConfidence[w.pass]
                 /\ name_table[k].strategy = PassStrategy[w.pass]
                 /\ name_table[k].qualified_name = w.qualified
                 /\ w.symbol_id # None => name_table[k].target_symbol_id = w.symbol_id

\* C6 witness: fn is defined in the file, imported as a whole module, as a
\* member and as a relative member; the table binds it to the relative import
C6_Witness ==
    /\ pc = "table_done"
    /\ table_path = P_pkg_mod
    /\ {1, 2, 3, 4} \subseteq {AllWrites[i].pass :
                                i \in {j \in 1..Len(AllWrites) : AllWrites[j].name = <<"fn">>}}
    /\ <<"fn">> \in DOMAIN name_table
    /\ name_table[<<"fn">>].qualified_name = Q_A
    /\ name_table[<<"fn">>].confidence = 80

----------------------------------------------------------------------------
(* list.sort(key=...) on tuple keys *)

\* one component of a sort key: an int or a str
IntKey(n) == <<"int", n>>

StrKey(s) == <<"str", s>>

\* Python's tuple and list comparison: the first differing component decides,
\* a proper prefix is less
RECURSIVE KeyLess(_, _)
KeyLess(a, b) ==
    IF b = <<>> THEN FALSE
    ELSE IF a = <<>> THEN TRUE
    ELSE IF Head(a) = Head(b) THEN KeyLess(Tail(a), Tail(b))
    ELSE IF Head(a)[1] = "int" THEN Head(a)[2] < Head(b)[2]
    ELSE StrLess(Head(a)[2], Head(b)[2])

RECURSIVE InsertByKey(_, _)
InsertByKey(sorted, x) ==
    IF sorted = <<>> THEN <<x>>
    ELSE IF KeyLess(x.key, Head(sorted).key) THEN <<x>> \o sorted
    ELSE <<Head(sorted)>> \o InsertByKey(Tail(sorted), x)

RECURSIVE SortKeyed(_)
SortKeyed(keyed) ==
    IF keyed = <<>> THEN <<>>
    ELSE Once({InsertByKey(sorted, keyed[Len(keyed)])
               : sorted \in {SortKeyed(SubSeq(keyed, 1, Len(keyed) - 1))}})

\* list.sort(key=lambda r: keys[r]): stable, equal keys keep their order
SortByKey(list, keys) ==
    Once({[i \in 1..Len(sorted) |-> sorted[i].value]
          : sorted \in {SortKeyed([i \in 1..Len(list) |-> [key |-> keys[i], value |-> list[i]]])}})

----------------------------------------------------------------------------
(* scan/files.py and artifacts/utils.py: the files a generator reads *)

\* fnmatch(name, pat) for patterns of literal text and "*", which matches any
\* run of characters, "/" included
RECURSIVE fnmatch(_, _)
fnmatch(name, pat) ==
    IF pat = <<>> THEN name = <<>>
    ELSE IF Head(pat) = "*"
    THEN fnmatch(name, Tail(pat)) \/ (name # <<>> /\ fnmatch(Tail(name), pat))
    ELSE name # <<>> /\ Head(name) = Head(pat) /\ fnmatch(Tail(name), Tail(pat))

\* Path.is_relative_to on Path.parts
is_relative_to(path_parts, root_parts) ==
    /\ Len(path_parts) >= Len(root_parts)
    /\ SubSeq(path_parts, 1, Len(root_parts)) = root_parts

\* _get_output_dir_name(out_dir, root): the first component of out_dir below
\* root, "" when out_dir is root or lies outside it
get_output_dir_name(dir, root) ==
    IF is_relative_to(dir, root) /\ Len(dir) > Len(root)
    THEN <<dir[Len(root) + 1]>>
    ELSE <<>>

\* a .gitignore file of the tree: the directory it lies in, as the parts of
\* its path below the root, and the file names it lists (patterns without "/"
\* or wildcard)
IgnoreFile(dir, names) == [dir |-> dir, names |-> names]

\* parse_gitignore(path)(file): a name of the ignore-file is a component of the
\* file's path below the directory of the ignore-file
IgnoreFileMatches(ignore_file, rel_path) ==
    LET parts == Split(rel_path, "/") IN
    /\ is_relative_to(parts, ignore_file.dir)
    /\ \E i \in (Len(ignore_file.dir) + 1)..Len(parts) : parts[i] \in ignore_file.names

\* _build_gitignore_matcher(root, nested_gitignore): the ignore-files the
\* matcher consults, None when there is none; `ignores` maps the directories
\* that hold a .gitignore to its names
build_gitignore_matcher(ignores, nested_gitignore) ==
    IF ~nested_gitignore
    THEN IF <<>> \in DOMAIN ignores THEN Some({IgnoreFile(<<>>, ignores[<<>>])}) ELSE None
    ELSE IF DOMAIN ignores = {} THEN None
    ELSE Some({IgnoreFile(d, ignores[d]) : d \in DOMAIN ignores})

\* _should_include_file for a regular *.py file below the root; rel_path is
\* its path relative to the root
should_include_file(rel_path, output_dir, gitignore_matches, include_patterns, exclude_patterns) ==
    LET parts == Split(rel_path, "/") IN
    IF output_dir # <<>> /\ parts # <<>> /\ parts[1] = output_dir THEN FALSE
    ELSE IF /\ gitignore_matches # None
            /\ \E f \in Get(gitignore_matches) : IgnoreFileMatches(f, rel_path)
    THEN FALSE
    ELSE IF /\ include_patterns # <<>>
            /\ ~\E i \in 1..Len(include_patterns) : fnmatch(rel_path, include_patterns[i])
    THEN FALSE
    ELSE ~(/\ exclude_patterns # <<>>
           /\ \E i \in 1..Len(exclude_patterns) : fnmatch(rel_path, exclude_patterns[i]))

\* find_python_files: rglob yields the files in the order of `listing`; the
\* matches are sorted by relative path
find_python_files(listing, ignores, output_dir, include_patterns, exclude_patterns, nested_gitignore) ==
    Once({
    Once({SortByKey(matched_files,
                    [i \in 1..Len(matched_files) |-> <<StrKey(matched_files[i])>>])
          : matched_files \in {SelectSeqBy(listing,
                                   {p \in Range(listing) :
                                       should_include_file(p, output_dir, gitignore_matches,
                                                           include_patterns, exclude_patterns)})}})
    : gitignore_matches \in {build_gitignore_matcher(ignores, nested_gitignore)}})

----------------------------------------------------------------------------
(* parse/treesitter_symbols.py and parse/treesitter_calls.py: what the
   extractors read from the syntax tree of a file *)

\* a class_definition or function_definition node the symbol traversal
\* reaches: its name, the names of the classes around it, its 1-based line,
\* its 0-based column and, for a class, the base classes as written
DefNode(type, name, parent_classes, line, col, bases) ==
    [type |-> type, name |-> name, parent_classes |-> parent_classes,
     line |-> line, col |-> col, bases |-> bases]

\* callee nodes of a call
Identifier(text) == [type |-> "identifier", text |-> text]

Attribute(object, attribute) == [type |-> "attribute", object |-> object, attribute |-> attribute]

CallNode == [type |-> "call"]

\* a call node: its callee, its 1-based line, its 0-based column and the
\* innermost definition around it (None at module level)
CallSite(callee, line, col, scope) == [callee |-> callee, line |-> line, col |-> col, scope |-> scope]

\* the syntax tree of a file
ParsedFile(defs, stmts, calls) == [defs |-> defs, stmts |-> stmts, calls |-> calls]

\* _build_qualified_name(module_name, parent_classes, name)
build_qualified_name(module_name, parent_classes, name) ==
    IF parent_classes # <<>>
    THEN module_name \o <<".">> \o Join(parent_classes, ".") \o <<".">> \o name
    ELSE module_name \o <<".">> \o name

\* the module record extract_symbols_treesitter starts with
module_symbol_record(relative_path, module_name) ==
    symbol_record(relative_path, "module",
        IF module_name # <<>> THEN Split(module_name, ".")[Len(Split(module_name, "."))]
        ELSE <<"<", "unknown", ">">>,
        module_name, 1, 1, <<>>)

\* extract_symbols_treesitter(file_path, relative_path, module_name): the
\* module record, then one record per definition in traversal order
extract_symbols_treesitter(file, relative_path, module_name) ==
    <<module_symbol_record(relative_path, module_name)>> \o
    [i \in 1..Len(file.defs) |->
        LET d == file.defs[i] IN
        create_symbol_record(
            relative_path,
            IF d.type = "class_definition" THEN "class"
            ELSE IF d.parent_classes # <<>> THEN "method" ELSE "function",
            d.name,
            build_qualified_name(module_name, d.parent_classes, d.name),
            d.line, d.col + 1, d.bases)]

\* _normalize_callee_expr(source_bytes, callee_node)
RECURSIVE normalize_callee_expr(_)
normalize_callee_expr(callee_node) ==
    IF callee_node = None THEN <<"<", "complex_expr", ">">>
    ELSE LET node == Get(callee_node) IN
    IF node.type = "identifier" THEN Strip(node.text)
    ELSE IF node.type = "attribute"
    THEN LET normalized_object == normalize_callee_expr(Some(node.object)) IN
         IF node.attribute = None THEN <<"<", "attribute", ">">>
         ELSE IF /\ normalized_object # <<>>
                 /\ Head(normalized_object) = "<"
                 /\ normalized_object[Len(normalized_object)] = ">"
         THEN <<"<", "attribute", ">">>
         ELSE Strip(normalized_object \o <<".">> \o Strip(Get(node.attribute)))
    ELSE <<"<", node.type, ">">>

\* extract_calls_treesitter(file_path, repo_root): one record per call node in
\* traversal order; the enclosing id is the top of the scope stack
extract_calls_treesitter(file, relative_path) ==
    [i \in 1..Len(file.calls) |->
        LET c == file.calls[i] IN
        [callee_expr |-> Strip(normalize_callee_expr(Some(c.callee))),
         src_span |-> [path |-> relative_path,
                       start_line |-> c.line,
                       start_col |-> c.col + 1],
         enclosing_symbol_id |->
            IF c.scope = None THEN raw_module_symbol_id(relative_path)
            ELSE raw_symbol_id(relative_path, Get(c.scope).name,
                               Get(c.scope).line, Get(c.scope).col)]]

----------------------------------------------------------------------------
(* graph/algos.py: Tarjan's strongly connected components *)

\* a dict of sets: the keys in insertion order and the set under each key
Graph(nodes, adj) == [nodes |-> nodes, adj |-> adj]

\* graph.get(node, set())
Neighbors(graph, node) == IF node \in DOMAIN graph.adj THEN graph.adj[node] ELSE {}

\* _TarjanState(); raised records the RuntimeError of _extract_scc, and pops
\* the nodes that stack.pop() has returned, in order
TarjanState ==
    [index |-> 0,
     indices |-> [n \in {} |-> 0],
     low_link |-> [n \in {} |-> 0],
     on_stack |-> {},
     stack |-> <<>>,
     sccs |-> <<>>,
     raised |-> FALSE,
     pops |-> <<>>]

Min(a, b) == IF a < b THEN a ELSE b

\* the while loop of _extract_scc
RECURSIVE PopScc(_, _, _)
PopScc(state, node, scc) ==
    IF state.stack = <<>> THEN [state |-> state, scc |-> scc]
    ELSE LET w == state.stack[Len(state.stack)]
             popped == [state EXCEPT !.stack = SubSeq(@, 1, Len(@) - 1),
                                     !.on_stack = @ \ {w},
                                     !.pops = Append(@, w)]
         IN IF w = node THEN [state |-> popped, scc |-> scc \o <<w>>]
            ELSE PopScc(popped, node, scc \o <<w>>)

\* _extract_scc(state, root)
extract_scc(state, node) ==
    LET r == PopScc(state, node, <<>>) IN
    IF node \notin Range(r.scc)
    THEN [state |-> [r.state EXCEPT !.raised = TRUE], scc |-> r.scc]
    ELSE r

RECURSIVE strongconnect(_, _, _)
RECURSIVE VisitNeighbors(_, _, _, _)

\* one round of the for loop without the on_stack test: the index of every
\* neighbour visited before lowers the low-link
VisitNeighbor_AnyVisited(node, neighbor, graph, state) ==
    IF neighbor \notin DOMAIN state.indices
    THEN Once({IF s.raised THEN s
               ELSE [s EXCEPT !.low_link[node] = Min(@, s.low_link[neighbor])] :
               s \in {strongconnect(neighbor, graph, state)}})
    ELSE [state EXCEPT !.low_link[node] = Min(@, state.indices[neighbor])]

\* one round of the for loop of _strongconnect
VisitNeighbor(node, neighbor, graph, state) ==
    IF neighbor \notin DOMAIN state.indices
    THEN Once({IF s.raised THEN s
               ELSE [s EXCEPT !.low_link[node] = Min(@, s.low_link[neighbor])] :
               s \in {strongconnect(neighbor, graph, state)}})
    ELSE IF neighbor \in state.on_stack
    THEN [state EXCEPT !.low_link[node] = Min(@, state.indices[neighbor])]
    ELSE state

\* the for loop of _strongconnect over sorted(graph.get(node, set()))
VisitNeighbors(node, neighbors, graph, state) ==
    IF neighbors = <<>> \/ state.raised THEN state
    ELSE Once({VisitNeighbors(node, Tail(neighbors), graph, after) :
               after \in {VisitNeighbor(node, Head(neighbors), graph, state)}})

\* the head of _strongconnect: the node gets its index and goes on the stack
EnterNode(node, state) ==
    [state EXCEPT !.indices = (node :> state.index) @@ @,
                  !.low_link = (node :> state.index) @@ @,
                  !.index = @ + 1,
                  !.stack = Append(@, node),
                  !.on_stack = @ \cup {node}]

\* the tail of _strongconnect without the self-loop test: only components of
\* more than one member are kept
LeaveNode_SizeOnly(node, graph, visited) ==
    IF visited.raised THEN visited
    ELSE IF visited.low_link[node] = visited.indices[node]
    THEN Once({IF r.state.raised THEN r.state
               ELSE IF Len(r.scc) > 1
               THEN [r.state EXCEPT !.sccs = Append(@, r.scc)]
               ELSE r.state :
               r \in {extract_scc(visited, node)}})
    ELSE visited

\* the tail of _strongconnect: a root pops its component, which is kept when
\* it is a cycle
LeaveNode(node, graph, visited) ==
    IF visited.raised THEN visited
    ELSE IF visited.low_link[node] = visited.indices[node]
    THEN Once({IF r.state.raised THEN r.state
               ELSE IF Len(r.scc) > 1 \/ node \in Neighbors(graph, node)
               THEN [r.state EXCEPT !.sccs = Append(@, r.scc)]
               ELSE r.state :
               r \in {extract_scc(visited, node)}})
    ELSE visited

\* _strongconnect(node, graph, state)
strongconnect(node, graph, state) ==
    Once({LeaveNode(node, graph, visited) :
          visited \in {VisitNeighbors(node, SortedStrs(Neighbors(graph, node)), graph, entered) :
                       entered \in {EnterNode(node, state)}}})

\* the for loop of find_cycles over the keys of the graph
RECURSIVE VisitNodes(_, _, _)
VisitNodes(nodes, graph, state) ==
    IF nodes = <<>> \/ state.raised THEN state
    ELSE Once({VisitNodes(Tail(nodes), graph, next) :
               next \in {IF Head(nodes) \notin DOMAIN state.indices
                         THEN strongconnect(Head(nodes), graph, state)
                         ELSE state}})

\* the _TarjanState of find_cycles(graph) when it returns or raises
final_state(graph) == VisitNodes(graph.nodes, graph, TarjanState)

\* find_cycles(graph): the components found, or the RuntimeError
find_cycles(graph) ==
    Once({IF state.raised THEN Raised("RuntimeError") ELSE Returned(state.sccs) :
          state \in {final_state(graph)}})

----------------------------------------------------------------------------
(* artifacts/summaries/builders.py *)

\* compute_fan_stats(edges): the counts, each dict as its keys in insertion
\* order and the count under each key
\* dict[k] = dict.get(k, 0) + 1
Incr(d, k) ==
    Graph(IF k \in DOMAIN d.adj THEN d.nodes ELSE Append(d.nodes, k),
          (k :> (IF k \in DOMAIN d.adj THEN d.adj[k] ELSE 0) + 1) @@ d.adj)

RECURSIVE compute_fan_stats(_)
compute_fan_stats(edges) ==
    IF edges = <<>>
    THEN [fan_in |-> Graph(<<>>, <<>>), fan_out |-> Graph(<<>>, <<>>)]
    ELSE Once({[fan_in |-> Incr(before.fan_in, edges[Len(edges)][2]),
                fan_out |-> Incr(before.fan_out, edges[Len(edges)][1])] :
               before \in {compute_fan_stats(SubSeq(edges, 1, Len(edges) - 1))}})

----------------------------------------------------------------------------
(* artifacts/generators: each generator scans the tree for itself and writes
   its records sorted.  A tree is a function from relative paths to
   ParsedFile; `listing` is the order in which rglob yields its paths; `dir`
   is out_dir as Path.parts. *)

\* Path.parts of the root of the repository the runs scan
repo_root == <<"repo">>

\* the files one generator reads
Scanned(listing, ignores, dir, include_patterns, exclude_patterns, nested_gitignore) ==
    find_python_files(listing, ignores, get_output_dir_name(dir, repo_root),
                      include_patterns, exclude_patterns, nested_gitignore)

\* SymbolsGenerator.generate without a layers configuration: layer is None
\* nested_gitignore arrives in kwargs and is not read: find_python_files gets
\* its default
symbols_generate(tree, listing, ignores, dir, include_patterns, exclude_patterns, nested_gitignore) ==
    Once({
    Once({SortByKey(all_symbols, [i \in 1..Len(all_symbols) |->
              <<StrKey(all_symbols[i].path), IntKey(all_symbols[i].start_line),
                IntKey(all_symbols[i].start_col)>>])
          : all_symbols \in {Concat([i \in 1..Len(scanned) |->
                                 extract_symbols_treesitter(tree[scanned[i]], scanned[i],
                                                            path_to_module(scanned[i]))])}})
    : scanned \in {Scanned(listing, ignores, dir, include_patterns, exclude_patterns, FALSE)}})

\* str.endswith and str.startswith on the tokens of a path
EndsWith(s, suffix) ==
    Len(s) >= Len(suffix) /\ SubSeq(s, Len(s) - Len(suffix) + 1, Len(s)) = suffix

\* ModulesGenerator.generate
modules_generate(tree, listing, ignores, dir, include_patterns, exclude_patterns, nested_gitignore) ==
    Once({
    Once({SortByKey(records, [i \in 1..Len(records) |-> <<StrKey(records[i].path)>>])
          : records \in {[i \in 1..Len(scanned) |->
                             [path |-> scanned[i],
                              module |-> path_to_module(scanned[i]),
                              is_package |-> EndsWith(scanned[i], <<"__init__", ".py">>),
                              package_root |-> IF StartsWith(scanned[i], <<"src", "/">>)
                                               THEN <<"src">> ELSE <<".">>]]}})
    : scanned \in {Scanned(listing, ignores, dir, include_patterns, exclude_patterns, nested_gitignore)}})

\* _extract_edges_from_file(file_path, root)
extract_edges_from_file(file, relative_path) ==
    Once({
    Once({LET Named(entries) == Concat([i \in 1..Len(entries) |->
                  IF entries[i][2] # <<>> THEN << <<source_module, entries[i][2]>> >> ELSE <<>>])
          IN [i \in 1..Len(imports["import"]) |-> <<source_module, imports["import"][i][2]>>]
             \o Named(imports["import_from"])
             \o Named(imports["import_star"])
             \o [i \in 1..Len(imports["relative_import"]) |->
                  LET e == imports["relative_import"][i]
                      target_module == IF e[2] # <<>> THEN e[2] ELSE Split(e[3], " as ")[1]
                  IN <<source_module,
                       resolve_relative_import(source_module, target_module, e[4])>>]
          : imports \in {extract_imports(file)}})
    : source_module \in {path_to_module(relative_path)}})

\* top_n of DepsGenerator.generate
TopN == 10

\* the dict built by inserting the source and then the target of each edge
EdgeGraph(unique_edges) ==
    Once({Graph(nodes, [n \in Range(nodes) |->
                  {e[2] : e \in {x \in Range(unique_edges) : x[1] = n}}])
          : nodes \in {FirstSeen(Concat([i \in 1..Len(unique_edges) |->
                                   <<unique_edges[i][1], unique_edges[i][2]>>]))}})

\* dict(sorted(d.items())) as the list of its items
SortedItems(d) ==
    Once({[i \in 1..Len(keys) |-> <<keys[i], d.adj[keys[i]]>>]
          : keys \in {SortByKey(d.nodes, [i \in 1..Len(d.nodes) |-> <<StrKey(d.nodes[i])>>])}})

\* sorted_cycles = [sorted(cycle) for cycle in cycles]; sorted_cycles.sort()
SortedCycles(cycles) ==
    Once({SortByKey(each_sorted, [i \in 1..Len(each_sorted) |->
              [j \in 1..Len(each_sorted[i]) |-> StrKey(each_sorted[i][j])]])
          : each_sorted \in {[i \in 1..Len(cycles) |->
                                 SortByKey(cycles[i], [j \in 1..Len(cycles[i]) |-> <<StrKey(cycles[i][j])>>])]}})

\* the files DepsGenerator.generate writes from the sorted edges, the modules
\* scanned, the cycles and the fan statistics
DepsFiles(unique_edges, module_to_path, cycles, fan) ==
    [edgelist |-> [i \in 1..Len(unique_edges) |->
        unique_edges[i][1] \o <<" -> ">> \o unique_edges[i][2]],
     summary |->
        [node_count |-> Cardinality(module_to_path
            \cup {unique_edges[i][1] : i \in 1..Len(unique_edges)}
            \cup {unique_edges[i][2] : i \in 1..Len(unique_edges)}),
         edge_count |-> Len(unique_edges),
         cycles |-> SortedCycles(cycles),
         fan_in |-> SortedItems(fan.fan_in),
         fan_out |-> SortedItems(fan.fan_out),
         top_modules |->
            Once({SubSeq(by_fan_in, 1, Min(TopN, Len(by_fan_in)))
                  : by_fan_in \in {SortByKey(fan.fan_in.nodes, [i \in 1..Len(fan.fan_in.nodes) |->
                                       <<IntKey(0 - fan.fan_in.adj[fan.fan_in.nodes[i]]),
                                         StrKey(fan.fan_in.nodes[i])>>])}}),
         layer_violations |-> <<>>]]

\* DepsGenerator.generate without a layers configuration: the lines of
\* deps.edgelist and the summary, or the RuntimeError of find_cycles
\* module_to_path of DepsGenerator.generate: each scanned file overwrites the
\* entry of its module, so the last path in scan order stays
deps_module_to_path(scanned) ==
    [m \in {path_to_module(scanned[i]) : i \in 1..Len(scanned)} |->
        scanned[CHOOSE i \in 1..Len(scanned) :
            /\ path_to_module(scanned[i]) = m
            /\ \A j \in (i + 1)..Len(scanned) : path_to_module(scanned[j]) # m]]

deps_generate(tree, listing, ignores, dir, include_patterns, exclude_patterns, nested_gitignore) ==
    Once({
    Once({
    Once({
    Once({
    Once({IF cycles.raised # "" THEN Raised(cycles.raised)
          ELSE Once({Returned(DepsFiles(unique_edges,
                         DOMAIN deps_module_to_path(scanned),
                         cycles.returned, fan))
                     : fan \in {compute_fan_stats(unique_edges)}})
          : cycles \in {find_cycles(graph)}})
    : graph \in {EdgeGraph(unique_edges)}})
    : unique_edges \in {SortByKey(deduped, [i \in 1..Len(deduped) |->
                            <<StrKey(deduped[i][1]), StrKey(deduped[i][2])>>])}})
    : deduped \in {FirstSeen(Concat([i \in 1..Len(scanned) |->
                       extract_edges_from_file(tree[scanned[i]], scanned[i])]))}})
    : scanned \in {Scanned(listing, ignores, dir, include_patterns, exclude_patterns, nested_gitignore)}})

\* INTEGRATION_TAG_RULES, the entries for the modules the trees import
INTEGRATION_TAG_RULES ==
    [m \in {<<"json">>, <<"logging">>} |->
        IF m = <<"json">> THEN <<"serialization">> ELSE <<"logging">>]

\* _get_integration_tag(module, extra_rules=None)
get_integration_tag(module) ==
    LET top_level == Split(module, ".")[1] IN
    IF top_level \in DOMAIN INTEGRATION_TAG_RULES
    THEN Some(INTEGRATION_TAG_RULES[top_level]) ELSE None

\* _extract_integrations_from_file(file_path, root, None)
extract_integrations_from_file(file, relative_path) ==
    Once({LET Of(import_type) == Concat([i \in 1..Len(imports[import_type]) |->
                  LET e == imports[import_type][i]
                      tag == get_integration_tag(e[2])
                  IN IF e[2] = <<>> \/ tag = None THEN <<>>
                     ELSE <<[path |-> relative_path,
                             tag |-> Get(tag),
                             evidence |->
                                IF e[3] # <<>> /\ import_type = "import_from"
                                THEN <<import_type, ": ">> \o e[2] \o <<".">>
                                          \o Split(e[3], " as ")[1]
                                ELSE <<import_type, ": ">> \o e[2],
                             line |-> e[1]]>>])
          IN Of("import") \o Of("import_from") \o Of("import_star")
          : imports \in {extract_imports(file)}})

\* IntegrationsGenerator.generate
integrations_generate(tree, listing, ignores, dir, include_patterns, exclude_patterns, nested_gitignore) ==
    Once({
    Once({SortByKey(all_integrations, [i \in 1..Len(all_integrations) |->
              <<StrKey(all_integrations[i].path), IntKey(all_integrations[i].line),
                StrKey(all_integrations[i].tag), StrKey(all_integrations[i].evidence)>>])
          : all_integrations \in {Concat([i \in 1..Len(scanned) |->
                                      extract_integrations_from_file(tree[scanned[i]], scanned[i])])}})
    : scanned \in {Scanned(listing, ignores, dir, include_patterns, exclude_patterns, nested_gitignore)}})

\* the id with the 0-based column of the node
RefId_ZeroBasedColumn(src_span, expr) ==
    <<"ref:">> \o src_span.path
        \o <<"@", "L", ToString(src_span.start_line), ":", "C", ToString(src_span.start_col - 1),
             ":", "call", ":">> \o expr

\* ref_id = f"ref:{path}@L{start_line}:C{start_col}:call:{callee_expr}"
RefId(src_span, expr) ==
    <<"ref:">> \o src_span.path
        \o <<"@", "L", ToString(src_span.start_line), ":", "C", ToString(src_span.start_col),
             ":", "call", ":">> \o expr

\* the sort key of calls_raw.jsonl and refs.jsonl
CallSortKey(src_span, enclosing_id, expr) ==
    <<StrKey(src_span.path), IntKey(src_span.start_line), IntKey(src_span.start_col),
      StrKey(<<"call">>), StrKey(IF enclosing_id = None THEN <<>> ELSE Get(enclosing_id)),
      StrKey(expr)>>

\* CallsRawGenerator.generate
calls_raw_generate(tree, listing, ignores, dir, include_patterns, exclude_patterns, nested_gitignore) ==
    Once({
    Once({
    Once({SortByKey(records, [i \in 1..Len(records) |->
              CallSortKey(records[i].src_span, records[i].enclosing_symbol_id,
                          records[i].callee_expr)])
          : records \in {[i \in 1..Len(call_sites) |->
                             Once({[ref_id |-> RefId(call_sites[i].src_span, expr),
                                    src_span |-> call_sites[i].src_span,
                                    callee_expr |-> expr,
                                    enclosing_symbol_id |-> Some(call_sites[i].enclosing_symbol_id),
                                    resolved_to |-> None,
                                    evidence |-> [strategy |-> "syntax_only"]]
                                   : expr \in {Strip(call_sites[i].callee_expr)}})]}})
    : call_sites \in {Concat([i \in 1..Len(scanned) |->
                          extract_calls_treesitter(tree[scanned[i]], scanned[i])])}})
    : scanned \in {Scanned(listing, ignores, dir, include_patterns, exclude_patterns, nested_gitignore)}})

\* build_modules_index(module_records): a later record of a path replaces an
\* earlier one
build_modules_index(module_records) ==
    [p \in {module_records[i].path : i \in 1..Len(module_records)} |->
        LET last == CHOOSE i \in 1..Len(module_records) :
                /\ module_records[i].path = p
                /\ \A j \in (i + 1)..Len(module_records) : module_records[j].path # p
        IN module_records[last].module]

\* _normalize_enclosing_path(path): the leading "./" are dropped (no path of
\* the trees holds a backslash)
RECURSIVE normalize_enclosing_path(_)
normalize_enclosing_path(path) ==
    IF StartsWith(path, <<".", "/">>) THEN normalize_enclosing_path(SubSeq(path, 3, Len(path)))
    ELSE path

\* _candidate_coordinates(line, col)
candidate_coordinates(line, col) ==
    LET all == << <<line, col>>, <<line, col - 1>>, <<line - 1, col>>, <<line - 1, col - 1>>,
                  <<line, col + 1>>, <<line + 1, col>>, <<line + 1, col + 1>> >>
    IN FirstSeen(SelectSeqBy(all, {c \in Range(all) : c[1] >= 1 /\ c[2] >= 1}))

\* _build_symbols_by_span(symbol_records): (path, line, col) -> symbol_id, a
\* later record of a span replaces an earlier one
build_symbols_by_span(symbol_records) ==
    LET Span(r) == <<normalize_enclosing_path(r.path), r.start_line, r.start_col>> IN
    [s \in {Span(symbol_records[i]) : i \in 1..Len(symbol_records)} |->
        LET last == CHOOSE i \in 1..Len(symbol_records) :
                /\ Span(symbol_records[i]) = s
                /\ \A j \in (i + 1)..Len(symbol_records) : Span(symbol_records[j]) # s
        IN symbol_records[last].symbol_id]

\* \d+ and int() on one token
IsDigits(tok) == \E n \in 0..99 : ToString(n) = tok

ParseInt(tok) == CHOOSE n \in 0..99 : ToString(n) = tok

\* _RAW_ENCLOSING_PATTERN.match(raw_id):
\* ^(?:symbol:|module:)(?P<path>.+?)@L(?P<line>\d+):C(?P<col>\d+)$
RawEnclosingMatch(raw_id) ==
    LET n == Len(raw_id) IN
    IF /\ n >= 8
       /\ raw_id[1] \in {"symbol:", "module:"}
       /\ raw_id[n - 5] = "@" /\ raw_id[n - 4] = "L" /\ IsDigits(raw_id[n - 3])
       /\ raw_id[n - 2] = ":" /\ raw_id[n - 1] = "C" /\ IsDigits(raw_id[n])
    THEN Some([path |-> SubSeq(raw_id, 2, n - 6),
               line |-> ParseInt(raw_id[n - 3]),
               col |-> ParseInt(raw_id[n])])
    ELSE None

\* the first candidate coordinate the lookup knows
RECURSIVE FirstKnownSpan(_, _, _)
FirstKnownSpan(path, candidates, symbols_by_span) ==
    IF candidates = <<>> THEN None
    ELSE IF <<path, Head(candidates)[1], Head(candidates)[2]>> \in DOMAIN symbols_by_span
    THEN Some(symbols_by_span[<<path, Head(candidates)[1], Head(candidates)[2]>>])
    ELSE FirstKnownSpan(path, Tail(candidates), symbols_by_span)

\* _canonicalize_enclosing_id(raw_id, symbols_by_span)
canonicalize_enclosing_id(raw_id, symbols_by_span) ==
    IF raw_id = None \/ Get(raw_id) = <<>> THEN None
    ELSE Once({IF match = None THEN raw_id
               ELSE Once({
                    Once({
                    Once({
                    Once({IF canonical # None THEN canonical ELSE raw_id
                          : canonical \in {FirstKnownSpan(path, candidate_coordinates(Get(match).line, Get(match).col),
                                                          symbols_by_span)}})
                    : path \in {IF /\ Head(Get(raw_id)) = "symbol:"
                                   /\ Find(whole, ":") # 0
                                   /\ (Find(candidate_path, "/") # 0 \/ EndsWith(candidate_path, <<".py">>))
                                THEN candidate_path ELSE whole}})
                    : candidate_path \in {RSplit1(whole, ":")[1]}})
                    : whole \in {normalize_enclosing_path(Get(match).path)}})
               : match \in {RawEnclosingMatch(Get(raw_id))}})

\* the records of calls_raw.jsonl of one path, in file order
CallsByPath(calls_raw_records, relative_path) ==
    SelectSeqBy(calls_raw_records,
                {r \in Range(calls_raw_records) : r.src_span.path = relative_path})

\* the body of the loop of RefsGenerator.generate over the call records of a
\* file: the RefRecord of one call, resolved by resolve_call
RefRecord(call_record, module_name, table, mindex, symbols_by_span) ==
    Once({
    Once({IF resolved.raised # "" THEN Raised(resolved.raised)
          ELSE Once({Returned(
                         [ref_id |-> RefId(call_record.src_span, expr),
                          ref_kind |-> "call",
                          src_span |-> call_record.src_span,
                          module |-> module_name,
                          enclosing_symbol_id |->
                             canonicalize_enclosing_id(call_record.enclosing_symbol_id,
                                                       symbols_by_span),
                          expr |-> expr,
                          resolved_to |-> tuple.resolved_to,
                          evidence |-> [strategy |-> tuple.strategy,
                                        confidence |-> tuple.confidence],
                          resolved_base_to |-> tuple.resolved_base_to,
                          member |-> tuple.member])
                     : tuple \in {Get(resolved.returned)}})
          : resolved \in {resolve_call(expr, table, mindex)}})
    : expr \in {Strip(call_record.callee_expr)}})

\* the body of the loop of RefsGenerator.generate over the files: the outcomes
\* of the calls of one file
RefsOfFile(file, relative_path, mindex, sindex, symbols_by_span, calls_raw_records) ==
    IF relative_path \notin DOMAIN mindex THEN <<>>
    ELSE Once({
         Once({[i \in 1..Len(call_records) |->
                   RefRecord(call_records[i], mindex[relative_path], table, mindex,
                             symbols_by_span)]
               : call_records \in {SelectSeqBy(CallsByPath(calls_raw_records, relative_path),
                                      {r \in Range(calls_raw_records) : Strip(r.callee_expr) # <<>>})}})
         : table \in {build_name_table(relative_path, mindex, sindex, extract_imports(file),
                                       extract_trivial_aliases(file))}})

\* RefsGenerator.generate: the records of refs.jsonl, or the exception of
\* resolve_call
refs_generate(tree, listing, ignores, dir, include_patterns, exclude_patterns, nested_gitignore, module_records, symbol_records, calls_raw_records) ==
    Once({
    Once({
    Once({
    Once({
    Once({IF \E i \in 1..Len(outcomes) : outcomes[i].raised # ""
          THEN Raised((CHOOSE o \in Range(outcomes) : o.raised # "").raised)
          ELSE Once({Returned(SortByKey(refs, [i \in 1..Len(refs) |->
                         CallSortKey(refs[i].src_span, refs[i].enclosing_symbol_id,
                                     refs[i].expr)]))
                     : refs \in {[i \in 1..Len(outcomes) |-> outcomes[i].returned]}})
          : outcomes \in {Concat([i \in 1..Len(scanned) |->
                              RefsOfFile(tree[scanned[i]], scanned[i], mindex, sindex, symbols_by_span,
                                         calls_raw_records)])}})
    : scanned \in {Scanned(listing, ignores, dir, include_patterns, exclude_patterns, nested_gitignore)}})
    : symbols_by_span \in {build_symbols_by_span(symbol_records)}})
    : sindex \in {build_symbols_index(symbol_records, mindex)}})
    : mindex \in {build_modules_index(module_records)}})

\* the projection of every record of refs.jsonl, whatever its kind
calls_generate_every_kind(refs_records) ==
    [i \in 1..Len(refs_records) |->
        [ref_id |-> refs_records[i].ref_id,
         src_span |-> refs_records[i].src_span,
         callee_expr |-> refs_records[i].expr,
         module |-> refs_records[i].module,
         enclosing_symbol_id |-> refs_records[i].enclosing_symbol_id,
         resolved_to |-> refs_records[i].resolved_to,
         resolved_base_to |-> refs_records[i].resolved_base_to,
         member |-> refs_records[i].member,
         evidence |-> refs_records[i].evidence]]

\* CallsGenerator.generate: the call records of refs.jsonl in file order
calls_generate(refs_records) ==
    LET kept == SelectSeqBy(refs_records, {r \in Range(refs_records) : r.ref_kind = "call"})
    IN [i \in 1..Len(kept) |->
        [ref_id |-> kept[i].ref_id,
         src_span |-> kept[i].src_span,
         callee_expr |-> kept[i].expr,
         module |-> kept[i].module,
         enclosing_symbol_id |-> kept[i].enclosing_symbol_id,
         resolved_to |-> kept[i].resolved_to,
         resolved_base_to |-> kept[i].resolved_base_to,
         member |-> kept[i].member,
         evidence |-> kept[i].evidence]]

----------------------------------------------------------------------------
(* The inputs of the pipeline runs: the tree

     pkg/__init__.py                     (empty)
     pkg/mod.py      1  <one import>
                     2  class A:
                     3      def m(self):
                     4          return 1
                     5      def f(self):
                     6          return <receiver>.m()
                     7  def g():
                     8      return A.m()
     top.py          1  <one import>     (optional)
                     2  pkg.mod.g()
*)

\* the most runs of generate_all_artifacts over one tree
MaxRuns == 2

P_top == <<"top", ".py">>

DefA == DefNode("class_definition", <<"A">>, <<>>, 2, 0, <<>>)

DefAm == DefNode("function_definition", <<"m">>, <<(<<"A">>)>>, 3, 4, <<>>)

DefAf == DefNode("function_definition", <<"f">>, <<(<<"A">>)>>, 5, 4, <<>>)

DefG == DefNode("function_definition", <<"g">>, <<>>, 7, 0, <<>>)

\* the callee of <receiver>.m(); super() is itself a call node
ReceiverCallees ==
    {Attribute(Identifier(<<"self">>), Some(<<"m">>)),
     Attribute(Identifier(<<"cls">>), Some(<<"m">>)),
     Attribute(CallNode, Some(<<"m">>)),
     Attribute(Identifier(<<"A">>), Some(<<"m">>))}

ModStmts ==
    {Stmt("import", <<1, <<"json">>, <<>>, 0>>),                \* import json
     Stmt("import", <<1, <<"top">>, <<>>, 0>>),                 \* import top
     Stmt("relative_import", <<1, <<>>, <<"mod">>, 1>>)}        \* from . import mod

TopStmts ==
    {Stmt("import", <<1, M_pkg_mod, <<>>, 0>>),                 \* import pkg.mod
     Stmt("import_from", <<1, <<"logging">>, <<"fn">>, 0>>)}    \* from logging import fn

\* the call nodes of pkg/mod.py in traversal order; super().m() holds the call
\* super(), which starts where it starts
ModFile(stmt, callee) ==
    ParsedFile(<<DefA, DefAm, DefAf, DefG>>, <<stmt>>,
               <<CallSite(callee, 6, 15, Some(DefAf))>>
               \o (IF callee.object = CallNode
                   THEN <<CallSite(Identifier(<<"super">>), 6, 15, Some(DefAf))>> ELSE <<>>)
               \o <<CallSite(Attribute(Identifier(<<"A">>), Some(<<"m">>)), 8, 11, Some(DefG))>>)

\* pkg/mod.py indented by two spaces, m calling g:
\*     2  class A:
\*     3    def m(self):
\*     4      return g()
\*     5    def f(self):
\*     6      return <receiver>.m()
\*     7  def g():
\*     8    return A.m()
DefAmTwoSpaces == DefNode("function_definition", <<"m">>, <<(<<"A">>)>>, 3, 2, <<>>)

DefAfTwoSpaces == DefNode("function_definition", <<"f">>, <<(<<"A">>)>>, 5, 2, <<>>)

ModFileTwoSpaces(stmt, callee) ==
    ParsedFile(<<DefA, DefAmTwoSpaces, DefAfTwoSpaces, DefG>>, <<stmt>>,
               <<CallSite(Identifier(<<"g">>), 4, 11, Some(DefAmTwoSpaces)),
                 CallSite(callee, 6, 11, Some(DefAfTwoSpaces))>>
               \o (IF callee.object = CallNode
                   THEN <<CallSite(Identifier(<<"super">>), 6, 11, Some(DefAfTwoSpaces))>> ELSE <<>>)
               \o <<CallSite(Attribute(Identifier(<<"A">>), Some(<<"m">>)), 8, 9, Some(DefG))>>)

\* pkg/mod.py with a base class in the class statement and super().m() in f:
\*     2  class A(X):
DefASubclass == DefNode("class_definition", <<"A">>, <<>>, 2, 0, <<(<<"X">>)>>)

ModFileSubclass ==
    [ModFile(Stmt("import", <<1, <<"json">>, <<>>, 0>>), Attribute(CallNode, Some(<<"m">>)))
        EXCEPT !.defs = <<DefASubclass, DefAm, DefAf, DefG>>]

TopFile(stmt) ==
    ParsedFile(<<>>, <<stmt>>,
               <<CallSite(Attribute(Attribute(Identifier(<<"pkg">>), Some(<<"mod">>)),
                                    Some(<<"g">>)), 2, 0, None)>>)

PipelineTrees ==
    {[p \in {P_pkg_init, P_pkg_mod} |->
        IF p = P_pkg_init THEN ParsedFile(<<>>, <<>>, <<>>) ELSE ModFile(stmt, callee)] :
     stmt \in ModStmts, callee \in ReceiverCallees}
    \cup
    {[p \in {P_pkg_init, P_pkg_mod, P_top} |->
        IF p = P_pkg_init THEN ParsedFile(<<>>, <<>>, <<>>)
        ELSE IF p = P_pkg_mod THEN ModFile(stmt, callee)
        ELSE TopFile(top)] :
     stmt \in ModStmts, callee \in ReceiverCallees, top \in TopStmts}
    \cup
    {[p \in {P_pkg_init, P_pkg_mod} |->
        IF p = P_pkg_init THEN ParsedFile(<<>>, <<>>, <<>>)
        ELSE ModFileTwoSpaces(Stmt("import", <<1, <<"json">>, <<>>, 0>>), callee)] :
     callee \in ReceiverCallees}
    \cup
    {[p \in {P_pkg_init, P_pkg_mod} |->
        IF p = P_pkg_init THEN ParsedFile(<<>>, <<>>, <<>>) ELSE ModFileSubclass]}

\* include, exclude and nested_gitignore of the configuration; no layers, no
\* integration tags
Config(include, exclude, nested_gitignore) ==
    [include |-> include, exclude |-> exclude, nested_gitignore |-> nested_gitignore]

PipelineConfigs ==
    {Config(<<>>, <<>>, FALSE),
     Config(<<>>, <<(<<"top", ".py">>)>>, FALSE),
     Config(<<(<<"pkg", "/", "*">>), (<<"*", ".py">>)>>, <<(<<"*", "/", "__init__", ".py">>)>>,
            FALSE)}

\* a tree without .gitignore files
NoIgnoreFiles == <<>>

\* the tree that is also run with ignore-files: pkg/mod.py with `import json`
\* and self.m(), top.py with `import pkg.mod`
IgnoredTree ==
    [p \in {P_pkg_init, P_pkg_mod, P_top} |->
        IF p = P_pkg_init THEN ParsedFile(<<>>, <<>>, <<>>)
        ELSE IF p = P_pkg_mod
        THEN ModFile(Stmt("import", <<1, <<"json">>, <<>>, 0>>),
                     Attribute(Identifier(<<"self">>), Some(<<"m">>)))
        ELSE TopFile(Stmt("import", <<1, M_pkg_mod, <<>>, 0>>))]

\* pkg/.gitignore listing mod.py; .gitignore at the root listing top.py
PipelineIgnores ==
    {(<<(<<"pkg">>)>> :> {<<"mod", ".py">>}),
     (<<>> :> {<<"top", ".py">>})}

\* the trees, ignore-files and configurations of the runs
PipelineInputs ==
    {[files |-> tree, gitignores |-> NoIgnoreFiles, config |-> c] :
        tree \in PipelineTrees, c \in PipelineConfigs}
    \cup
    {[files |-> IgnoredTree, gitignores |-> ignores,
      config |-> Config(<<>>, <<>>, nested_gitignore)] :
        ignores \in PipelineIgnores, nested_gitignore \in BOOLEAN}

\* output directories: two below the root, two outside it
OutDirs ==
    {repo_root \o <<"pkg", "out">>, repo_root \o <<".repomap">>,
     <<"tmp", "out_one">>, <<"tmp", "out_two">>}

\* the orders in which rglob may yield the files of the tree
Listings(paths) == {l \in [1..Cardinality(paths) -> paths] : Range(l) = paths}

\* an output directory before its first artifact is written
NoArtifacts ==
    [symbols |-> None, modules |-> None, deps_edgelist |-> None, deps_summary |-> None,
     integrations |-> None, calls_raw |-> None, refs |-> None, calls |-> None]

\* _write_jsonl / _write_json under out_dir, after out_dir.mkdir
WriteArtifact(d, dir, artifact, content) ==
    [x \in DOMAIN d \cup {dir} |->
        IF x = dir
        THEN [(IF dir \in DOMAIN d THEN d[dir] ELSE NoArtifacts) EXCEPT ![artifact] = Some(content)]
        ELSE d[x]]

----------------------------------------------------------------------------
(* Pipeline runs: generate_all_artifacts over one tree, up to MaxRuns times,
   each run into a directory of its own; one step per generator *)

InitPipeline ==
    /\ pc = "idle"
    /\ callee_expr = <<>>
    /\ enclosing_symbol_id = None
    /\ result = Returned(None)
    /\ name_table = <<>>
    /\ modules_index = <<>>
    /\ symbols_index = <<>>
    /\ table_path = <<>>
    /\ \E input \in PipelineInputs :
        /\ files = input.files
        /\ gitignores = input.gitignores
        /\ config = input.config
    /\ out_dir = <<>>
    /\ disk = <<>>
    /\ NoDeps

unwritten_vars == <<resolver_vars, index_vars, tree_vars, config, deps_vars>>

CallGenerateAllArtifacts ==
    /\ pc = "idle"
    /\ Cardinality(DOMAIN disk) < MaxRuns
    /\ \E dir \in OutDirs \ DOMAIN disk : out_dir' = dir
    /\ pc' = "symbols"
    /\ UNCHANGED <<unwritten_vars, disk>>

GenerateSymbols ==
    /\ pc = "symbols"
    /\ \E listing \in Listings(DOMAIN files) :
        disk' = WriteArtifact(disk, out_dir, "symbols",
                    symbols_generate(files, listing, gitignores, out_dir, config.include, config.exclude,
                        config.nested_gitignore))
    /\ pc' = "modules"
    /\ UNCHANGED <<unwritten_vars, out_dir>>

GenerateModules ==
    /\ pc = "modules"
    /\ \E listing \in Listings(DOMAIN files) :
        disk' = WriteArtifact(disk, out_dir, "modules",
                    modules_generate(files, listing, gitignores, out_dir, config.include, config.exclude,
                        config.nested_gitignore))
    /\ pc' = "deps"
    /\ UNCHANGED <<unwritten_vars, out_dir>>

GenerateDeps ==
    /\ pc = "deps"
    /\ \E listing \in Listings(DOMAIN files) :
        LET deps == deps_generate(files, listing, gitignores, out_dir, config.include, config.exclude,
                        config.nested_gitignore) IN
        IF deps.raised # ""
        THEN pc' = "failed" /\ disk' = disk
        ELSE /\ pc' = "integrations"
             /\ disk' = WriteArtifact(
                    WriteArtifact(disk, out_dir, "deps_edgelist", deps.returned.edgelist),
                    out_dir, "deps_summary", deps.returned.summary)
    /\ UNCHANGED <<unwritten_vars, out_dir>>

\* the integrations step handing over to RefsGenerator, CallsRawGenerator
\* left out
GenerateIntegrations_SkipsCallsRaw ==
    /\ pc = "integrations"
    /\ \E listing \in Listings(DOMAIN files) :
        disk' = WriteArtifact(disk, out_dir, "integrations",
                    integrations_generate(files, listing, gitignores, out_dir, config.include, config.exclude,
                        config.nested_gitignore))
    /\ pc' = "refs"
    /\ UNCHANGED <<unwritten_vars, out_dir>>

GenerateIntegrations ==
    /\ pc = "integrations"
    /\ \E listing \in Listings(DOMAIN files) :
        disk' = WriteArtifact(disk, out_dir, "integrations",
                    integrations_generate(files, listing, gitignores, out_dir, config.include, config.exclude,
                        config.nested_gitignore))
    /\ pc' = "calls_raw"
    /\ UNCHANGED <<unwritten_vars, out_dir>>

GenerateCallsRaw ==
    /\ pc = "calls_raw"
    /\ \E listing \in Listings(DOMAIN files) :
        disk' = WriteArtifact(disk, out_dir, "calls_raw",
                    calls_raw_generate(files, listing, gitignores, out_dir, config.include, config.exclude,
                        config.nested_gitignore))
    /\ pc' = "refs"
    /\ UNCHANGED <<unwritten_vars, out_dir>>

GenerateRefs ==
    /\ pc = "refs"
    /\ \E listing \in Listings(DOMAIN files) :
        LET refs == refs_generate(files, listing, gitignores, out_dir, config.include, config.exclude,
                        config.nested_gitignore,
                        Get(disk[out_dir].modules), Get(disk[out_dir].symbols),
                        Get(disk[out_dir].calls_raw))
        IN IF refs.raised # ""
           THEN pc' = "failed" /\ disk' = disk
           ELSE pc' = "calls" /\ disk' = WriteArtifact(disk, out_dir, "refs", refs.returned)
    /\ UNCHANGED <<unwritten_vars, out_dir>>

GenerateCalls ==
    /\ pc = "calls"
    /\ disk' = WriteArtifact(disk, out_dir, "calls", calls_generate(Get(disk[out_dir].refs)))
    /\ pc' = "idle"
    /\ UNCHANGED <<unwritten_vars, out_dir>>

NextPipeline ==
    \/ CallGenerateAllArtifacts
    \/ GenerateSymbols
    \/ GenerateModules
    \/ GenerateDeps
    \/ GenerateIntegrations
    \/ GenerateCallsRaw
    \/ GenerateRefs
    \/ GenerateCalls

SpecPipeline == InitPipeline /\ [][NextPipeline]_vars

----------------------------------------------------------------------------
(* Claims about the pipeline runs *)

\* the artifacts written by the runs that got that far
RunsWith(artifact) == {dir \in DOMAIN disk : disk[dir][artifact] # None}

DeterministicArtifacts ==
    {"symbols", "modules", "calls_raw", "refs", "calls", "deps_edgelist", "deps_summary"}

\* C1: for a fixed input tree and configuration, any two runs of
\* generate_all_artifacts into separate output directories leave identical
\* contents for symbols, modules, calls_raw, refs, calls, the deps edge list
\* and the deps summary.
C1_RunsProduceIdenticalArtifacts ==
    \A artifact \in DeterministicArtifacts :
        \A one \in RunsWith(artifact), two \in RunsWith(artifact) :
            disk[one][artifact] = disk[two][artifact]

\* what the two tiers make of a recorded call: the name table of its file as
\* RefsGenerator builds it from the artifacts of the run, Tier 1 and Tier 2
TiersOf(dir, path, expr, enclosing_id) ==
    LET mindex == build_modules_index(Get(disk[dir].modules))
        sindex == build_symbols_index(Get(disk[dir].symbols), mindex)
        table == build_name_table(path, mindex, sindex, extract_imports(files[path]),
                                  extract_trivial_aliases(files[path]))
    IN [tier1 |-> resolve_call(expr, table, mindex),
        tier2 |-> resolve_call_class_context(expr, enclosing_id, table, mindex, sindex)]

\* Tier 1 leaves the call without resolved_to and Tier 2 resolves it to a method
Tier2Resolves(tiers) ==
    /\ tiers.tier1.raised = "" /\ Get(tiers.tier1.returned).resolved_to = None
    /\ tiers.tier2.raised = "" /\ tiers.tier2.returned # None
    /\ Get(tiers.tier2.returned).resolved_to # None

\* the record carries the resolution
Records(record, resolution) ==
    /\ record.resolved_to = resolution.resolved_to
    /\ record.resolved_base_to = resolution.resolved_base_to
    /\ record.member = resolution.member
    /\ record.evidence = [strategy |-> resolution.strategy, confidence |-> resolution.confidence]

\* C2: in refs.jsonl and calls.jsonl of a run, every call that Tier 1 does not
\* fully resolve and that Tier 2 resolves in its class context (self.m, cls.m,
\* super().m, ClassName.m) is recorded with the Tier 2 result: self.m inside
\* A.f is recorded as the method A.m, strategy class_self_method, confidence 70.
C2_ClassContextCallsRecordedWithTier2 ==
    /\ \A dir \in RunsWith("refs") : \A i \in 1..Len(Get(disk[dir].refs)) :
        LET r == Get(disk[dir].refs)[i]
            tiers == TiersOf(dir, r.src_span.path, r.expr, r.enclosing_symbol_id)
        IN Tier2Resolves(tiers) => Records(r, Get(tiers.tier2.returned))
    /\ \A dir \in RunsWith("calls") : \A i \in 1..Len(Get(disk[dir].calls)) :
        LET r == Get(disk[dir].calls)[i]
            tiers == TiersOf(dir, r.src_span.path, r.callee_expr, r.enclosing_symbol_id)
        IN Tier2Resolves(tiers) => Records(r, Get(tiers.tier2.returned))


----------------------------------------------------------------------------
(* Module-naming runs: path_to_module applied to one relative path *)

MaxPathSegs == 3

\* the segments between the "/" of the paths: a package-root directory, a
\* package directory, an __init__ file, a module file and the empty segment
PathSegs ==
    {<<"src">>, <<"pkg">>, <<"__init__", ".py">>, <<"mod", ".py">>, <<>>}

NamingPaths ==
    UNION {{Join(l, "/") : l \in [1..n -> PathSegs]} : n \in 0..MaxPathSegs}

InitNaming ==
    /\ pc = "naming"
    /\ callee_expr = <<>>
    /\ enclosing_symbol_id = None
    /\ result = Returned(None)
    /\ name_table = <<>>
    /\ modules_index = <<>>
    /\ symbols_index = <<>>
    /\ files = <<>>
    /\ table_path = <<>>
    /\ gitignores = <<>>
    /\ config = [include |-> <<>>, exclude |-> <<>>]
    /\ out_dir = <<>>
    /\ disk = <<>>
    /\ NoDeps

\* path_to_module has no raise statement: it returns the joined parts
CallPathToModule ==
    /\ pc = "naming"
    /\ \E path \in NamingPaths :
        /\ table_path' = path
        /\ result' = Returned(path_to_module(path))
    /\ pc' = "named"
    /\ UNCHANGED <<callee_expr, enclosing_symbol_id, index_vars, files, gitignores,
                   pipeline_vars, deps_vars>>

NextNaming == CallPathToModule

SpecNaming == InitNaming /\ [][NextNaming]_vars

\* the parts of a path that name the module: the non-empty segments, without
\* the package-root directory when something follows it
NamingParts(path) ==
    LET parts == NonEmptyParts(Split(path, "/"))
    IN IF Len(parts) >= 2 /\ parts[1] = <<"src">> THEN Tail(parts) ELSE parts

\* nothing is left to name the module: no part at all, or an __init__ file alone
NameWouldBeEmpty(path) ==
    NamingParts(path) \in {<<>>, <<(<<"__init__", ".py">>)>>}

\* C12: path_to_module fails with an explicit error for every path whose
\* module name would be empty ("__init__.py", "src/__init__.py", a path with
\* no non-empty segment) and never returns the empty string.
C12_EmptyModuleNameRaises ==
    pc = "named" =>
        /\ NameWouldBeEmpty(table_path) => result.raised = "ValueError"
        /\ result.raised = "" => result.returned # <<>>

----------------------------------------------------------------------------
(* graph/algos.py: find_cycles over the dicts of sets a caller can build *)

\* the most edges a graph of the runs has
MaxEdges == 4

CycleNodes == {<<"A">>, <<"B">>, <<"C">>}

\* the orders in which the members of a set can be inserted as keys
Orders(S) ==
    {order \in [1..Cardinality(S) -> S] : Range(order) = S}

\* the dicts of sets with the edges `edges`: every source is a key, a node
\* that is only a target need not be one, and the keys are in any order
GraphsOf(edges) ==
    {Graph(order, [n \in Range(order) |-> {e[2] : e \in {x \in edges : x[1] = n}}]) :
        order \in UNION {Orders(keys) :
                         keys \in {K \in SUBSET CycleNodes : {e[1] : e \in edges} \subseteq K}}}

CycleGraphs ==
    UNION {GraphsOf(edges) :
           edges \in {E \in SUBSET (CycleNodes \X CycleNodes) : Cardinality(E) <= MaxEdges}}

InitCycles ==
    /\ pc = "cycles"
    /\ callee_expr = <<>>
    /\ enclosing_symbol_id = None
    /\ result = Returned(None)
    /\ name_table = <<>>
    /\ modules_index = <<>>
    /\ symbols_index = <<>>
    /\ files = <<>>
    /\ table_path = <<>>
    /\ gitignores = <<>>
    /\ config = [include |-> <<>>, exclude |-> <<>>]
    /\ out_dir = <<>>
    /\ disk = <<>>
    /\ dep_graph \in CycleGraphs
    /\ dep_edges = <<>>
    /\ dep_paths = <<>>
    /\ layers = <<>>
    /\ frame = <<>>

CallFindCycles ==
    /\ pc = "cycles"
    /\ result' = find_cycles(dep_graph)
    /\ frame' = final_state(dep_graph)
    /\ pc' = "cycled"
    /\ UNCHANGED <<callee_expr, enclosing_symbol_id, index_vars, tree_vars,
                   pipeline_vars, dep_graph, dep_edges, dep_paths, layers>>

NextCycles == CallFindCycles

SpecCycles == InitCycles /\ [][NextCycles]_vars

\* the edges of a dict of sets
EdgesOf(graph) ==
    {e \in CycleNodes \X CycleNodes : e[1] \in DOMAIN graph.adj /\ e[2] \in graph.adj[e[1]]}

\* the nodes reachable from the nodes of S along edges, S included
RECURSIVE ReachableFrom(_, _)
ReachableFrom(S, edges) ==
    LET next == S \cup {e[2] : e \in {x \in edges : x[1] \in S}} IN
    IF next = S THEN S ELSE ReachableFrom(next, edges)

\* the strongly connected component of a node
Component(n, edges) ==
    {m \in ReachableFrom({n}, edges) : n \in ReachableFrom({m}, edges)}

\* the components that are cycles: more than one member, or a self-loop
CyclicComponents(edges) ==
    {Component(n, edges) : n \in {m \in CycleNodes :
        Cardinality(Component(m, edges)) > 1 \/ <<m, m>> \in edges}}

\* C13: find_cycles returns one list for each strongly connected component
\* that has more than one member or is a node with a self-loop, the list holds
\* the nodes of that component once each, and it returns nothing else (and
\* never raises)
C13_CyclesAreCyclicComponents ==
    pc = "cycled" =>
        /\ result.raised = ""
        /\ {Range(result.returned[i]) : i \in 1..Len(result.returned)}
               = CyclicComponents(EdgesOf(dep_graph))
        /\ Len(result.returned) = Cardinality(CyclicComponents(EdgesOf(dep_graph)))
        /\ \A i \in 1..Len(result.returned) :
               Len(result.returned[i]) = Cardinality(Range(result.returned[i]))

\* a graph with the two-node cycle A -> B -> A and the self-loop of C, which
\* is no part of it: both are returned
C13_Witness ==
    /\ pc = "cycled"
    /\ EdgesOf(dep_graph) = {<< <<"A">>, <<"B">> >>, << <<"B">>, <<"A">> >>,
                             << <<"C">>, <<"C">> >>, << <<"B">>, <<"C">> >>}
    /\ Len(result.returned) = 2

----------------------------------------------------------------------------
(* rules/layers.py and artifacts/summaries/builders.py: layer violations.
   A LayersConfig is [layer, rules, unclassified]: `layer` the list of
   LayerDef [name, globs], `rules` the list of LayerRule [from_layer, to]. *)

LayerDef(name, globs) == [name |-> name, globs |-> globs]

LayerRule(from_layer, to) == [from_layer |-> from_layer, to |-> to]

LayersConfig(layer, rules, unclassified) ==
    [layer |-> layer, rules |-> rules, unclassified |-> unclassified]

\* classify_layer with the last matching layer definition winning
classify_layer_last_match(path, layers_config) ==
    LET matching == {i \in 1..Len(layers_config.layer) :
                        \E g \in Range(layers_config.layer[i].globs) : fnmatch(path, g)}
    IN IF matching = {} THEN None
       ELSE Some(layers_config.layer[CHOOSE i \in matching : \A j \in matching : j <= i].name)

\* classify_layer(path, layers_config): the two loops return at the first
\* layer definition one of whose globs matches
classify_layer(path, layers_config) ==
    LET matching == {i \in 1..Len(layers_config.layer) :
                        \E g \in Range(layers_config.layer[i].globs) : fnmatch(path, g)}
    IN IF matching = {} THEN None
       ELSE Some(layers_config.layer[CHOOSE i \in matching : \A j \in matching : i <= j].name)

\* build_allowed_deps(layers_config): each rule overwrites the entry of its
\* from_layer
RECURSIVE AllowedAfter(_)
AllowedAfter(rules) ==
    IF rules = <<>> THEN <<>>
    ELSE Once({(rules[Len(rules)].from_layer :> Range(rules[Len(rules)].to)) @@ allowed :
               allowed \in {AllowedAfter(SubSeq(rules, 1, Len(rules) - 1))}})

build_allowed_deps(layers_config) == AllowedAfter(layers_config.rules)

\* is_violation with the deny branch judging the unclassified source
is_violation_source_judged(from_layer, to_layer, allowed_deps, unclassified) ==
    IF from_layer = None \/ to_layer = None
    THEN IF unclassified \in {"allow", "ignore"} THEN FALSE
         ELSE from_layer = None
    ELSE IF Get(from_layer) \notin DOMAIN allowed_deps THEN FALSE
    ELSE Get(to_layer) \notin allowed_deps[Get(from_layer)]

\* is_violation with a missing rule entry forbidding every target layer
is_violation_missing_rule_forbids(from_layer, to_layer, allowed_deps, unclassified) ==
    IF from_layer = None \/ to_layer = None
    THEN IF unclassified \in {"allow", "ignore"} THEN FALSE
         ELSE from_layer # None
    ELSE IF Get(from_layer) \notin DOMAIN allowed_deps THEN TRUE
    ELSE Get(to_layer) \notin allowed_deps[Get(from_layer)]

\* is_violation with the deny branch flagging every unclassified end
is_violation_deny_flags_both(from_layer, to_layer, allowed_deps, unclassified) ==
    IF from_layer = None \/ to_layer = None
    THEN unclassified \notin {"allow", "ignore"}
    ELSE IF Get(from_layer) \notin DOMAIN allowed_deps THEN FALSE
    ELSE Get(to_layer) \notin allowed_deps[Get(from_layer)]

\* is_violation(from_layer, to_layer, allowed_deps, unclassified)
is_violation(from_layer, to_layer, allowed_deps, unclassified) ==
    IF from_layer = None \/ to_layer = None
    THEN IF unclassified \in {"allow", "ignore"} THEN FALSE
         ELSE from_layer # None
    ELSE IF Get(from_layer) \notin DOMAIN allowed_deps THEN FALSE
    ELSE Get(to_layer) \notin allowed_deps[Get(from_layer)]

\* one round of the loop over the edges: the violation appended, if any
EdgeViolation(edge, layers_config, module_to_path, allowed_deps) ==
    IF edge[1] \notin DOMAIN module_to_path THEN <<>>
    ELSE Once({
         Once({IF from_layer # None
                  /\ is_violation(from_layer, to_layer, allowed_deps, layers_config.unclassified)
               THEN <<[from_file |-> module_to_path[edge[1]],
                       to_module |-> edge[2],
                       from_layer |-> Get(from_layer),
                       to_layer |-> to_layer]>>
               ELSE <<>>
               : to_layer \in {IF edge[2] \in DOMAIN module_to_path
                               THEN classify_layer(module_to_path[edge[2]], layers_config)
                               ELSE None}})
         : from_layer \in {classify_layer(module_to_path[edge[1]], layers_config)}})

\* compute_layer_violations(edges, layers_config, module_to_path)
compute_layer_violations(edges, layers_config, module_to_path) ==
    IF layers_config.layer = <<>> \/ layers_config.rules = <<>> THEN <<>>
    ELSE Once({
         Once({SortByKey(violations, [i \in 1..Len(violations) |->
                   <<StrKey(violations[i].from_file), StrKey(violations[i].to_module),
                     StrKey(violations[i].from_layer),
                     StrKey(IF violations[i].to_layer = None THEN <<>>
                            ELSE Get(violations[i].to_layer))>>])
               : violations \in {Concat([i \in 1..Len(edges) |->
                     EdgeViolation(edges[i], layers_config, module_to_path, allowed_deps)])}})
         : allowed_deps \in {build_allowed_deps(layers_config)}})

\* the most edges a dependency list of the runs has
MaxDepEdges == 2

Foundation == <<"foundation">>

Interface == <<"interface">>

Integration == <<"integration">>

LayerModules == {<<"A">>, <<"B">>, <<"C">>, <<"X">>}

\* module_to_path of the runs: X is a module without a known path
LayerPaths ==
    (<<"A">> :> <<"pkg", "/", "A", ".py">>) @@ (<<"B">> :> <<"pkg", "/", "B", ".py">>)
    @@ (<<"C">> :> <<"sub", "/", "C", ".py">>)

\* layer definitions: none; A foundation and B interface; the same with C in
\* a third layer; overlapping globs in both orders; C left in no layer
LayerLists ==
    {<<>>,
     <<LayerDef(Foundation, <<(<<"pkg", "/", "A", "*">>)>>),
       LayerDef(Interface, <<(<<"pkg", "/", "B", "*">>)>>)>>,
     <<LayerDef(Foundation, <<(<<"pkg", "/", "A", "*">>)>>),
       LayerDef(Interface, <<(<<"pkg", "/", "B", "*">>)>>),
       LayerDef(Integration, <<(<<"top", "/", "*">>), <<"sub", "/", "*">>>>)>>,
     <<LayerDef(Foundation, <<(<<"pkg", "/", "A", "*">>)>>),
       LayerDef(Interface, <<(<<"pkg", "/", "*">>)>>)>>,
     <<LayerDef(Interface, <<(<<"pkg", "/", "*">>)>>),
       LayerDef(Foundation, <<(<<"pkg", "/", "A", "*">>)>>)>>}

\* rule lists: none; interface -> [foundation]; two entries for one layer;
\* entries for several layers; empty allow-lists
RuleLists ==
    {<<>>,
     <<LayerRule(Interface, <<Foundation>>)>>,
     <<LayerRule(Interface, <<Foundation>>), LayerRule(Interface, <<Interface>>)>>,
     <<LayerRule(Foundation, <<Foundation, Interface>>),
       LayerRule(Integration, <<Foundation>>)>>,
     <<LayerRule(Interface, <<>>), LayerRule(Foundation, <<>>)>>}

LayerConfigs ==
    {LayersConfig(layer, rules, unclassified) :
        layer \in LayerLists, rules \in RuleLists, unclassified \in {"allow", "deny", "ignore"}}

DepEdgeLists ==
    UNION {[1..n -> LayerModules \X LayerModules] : n \in 0..MaxDepEdges}

\* the layers an end of an edge can be classified into, None for no layer
EdgeLayers == {None, Some(Foundation), Some(Interface), Some(Integration)}

\* the arguments of the calls of is_violation: the allowed-dependency map is
\* the one build_allowed_deps makes of a rule list
ViolationFrames ==
    {[from_layer |-> from_layer, to_layer |-> to_layer,
      allowed_deps |-> build_allowed_deps(LayersConfig(<<>>, rules, unclassified)),
      unclassified |-> unclassified] :
        from_layer \in EdgeLayers, to_layer \in EdgeLayers, rules \in RuleLists,
        unclassified \in {"allow", "deny", "ignore"}}

\* a run is one call of compute_layer_violations or one call of is_violation
InitLayers ==
    /\ callee_expr = <<>>
    /\ enclosing_symbol_id = None
    /\ result = Returned(None)
    /\ name_table = <<>>
    /\ modules_index = <<>>
    /\ symbols_index = <<>>
    /\ files = <<>>
    /\ table_path = <<>>
    /\ gitignores = <<>>
    /\ config = [include |-> <<>>, exclude |-> <<>>]
    /\ out_dir = <<>>
    /\ disk = <<>>
    /\ dep_graph = <<>>
    /\ \/ /\ pc = "layers"
          /\ dep_edges \in DepEdgeLists
          /\ dep_paths = LayerPaths
          /\ layers \in LayerConfigs
          /\ frame = <<>>
       \/ /\ pc = "violation"
          /\ dep_edges = <<>>
          /\ dep_paths = <<>>
          /\ layers = <<>>
          /\ frame \in ViolationFrames

\* a call of is_violation with the arguments of the frame
CallIsViolation ==
    /\ pc = "violation"
    /\ result' = Returned(is_violation(frame.from_layer, frame.to_layer,
                                       frame.allowed_deps, frame.unclassified))
    /\ pc' = "judged"
    /\ UNCHANGED <<callee_expr, enclosing_symbol_id, index_vars, tree_vars,
                   pipeline_vars, deps_vars>>

CallComputeLayerViolations ==
    /\ pc = "layers"
    /\ result' = Returned(compute_layer_violations(dep_edges, layers, dep_paths))
    /\ pc' = "layered"
    /\ UNCHANGED <<callee_expr, enclosing_symbol_id, index_vars, tree_vars,
                   pipeline_vars, deps_vars>>

NextLayers == CallComputeLayerViolations \/ CallIsViolation

SpecLayers == InitLayers /\ [][NextLayers]_vars

\* the layers whose globs a module's path matches, as positions of the list
LayersMatching(module) ==
    IF module \notin DOMAIN dep_paths THEN {}
    ELSE {i \in 1..Len(layers.layer) :
             \E k \in 1..Len(layers.layer[i].globs) :
                 fnmatch(dep_paths[module], layers.layer[i].globs[k])}

Classified(module) == LayersMatching(module) # {}

\* the layer of a classified module: the first whose glob matches
LayerOf(module) ==
    layers.layer[CHOOSE i \in LayersMatching(module) :
                    \A j \in LayersMatching(module) : i <= j].name

\* the edge is reported: a record of the result names its file and target
Flagged(edge) ==
    /\ edge[1] \in DOMAIN dep_paths
    /\ \E i \in 1..Len(result.returned) :
           /\ result.returned[i].from_file = dep_paths[edge[1]]
           /\ result.returned[i].to_module = edge[2]

DepEdges == {dep_edges[i] : i \in 1..Len(dep_edges)}

\* C14 as stated: under the policy deny an edge whose source module is
\* unclassified is flagged and an edge from a classified source to an
\* unclassified target is not; under every other policy no edge with an
\* unclassified source or target is flagged
C14_DenyJudgesUnclassifiedSource ==
    pc = "layered" =>
        \A edge \in DepEdges :
            /\ layers.unclassified = "deny" =>
                /\ ~Classified(edge[1]) => Flagged(edge)
                /\ Classified(edge[1]) /\ ~Classified(edge[2]) => ~Flagged(edge)
            /\ layers.unclassified # "deny" =>
                (~Classified(edge[1]) \/ ~Classified(edge[2]) => ~Flagged(edge))

\* C14 amended: under the policy deny, with at least one layer rule, an edge
\* from a classified source to an unclassified target (no known path, or a
\* path in no layer) is flagged, and an edge whose source is unclassified is
\* never flagged; under every other policy no edge with an unclassified source
\* or target is flagged
C14_DenyFlagsUnclassifiedTarget ==
    pc = "layered" =>
        \A edge \in DepEdges :
            /\ layers.unclassified = "deny" =>
                /\ layers.rules # <<>> /\ Classified(edge[1]) /\ ~Classified(edge[2])
                       => Flagged(edge)
                /\ ~Classified(edge[1]) => ~Flagged(edge)
            /\ layers.unclassified # "deny" =>
                (~Classified(edge[1]) \/ ~Classified(edge[2]) => ~Flagged(edge))

\* under deny, A (foundation) -> X (no path) is flagged and C (in no layer)
\* -> A is not
C14_Witness ==
    /\ pc = "layered"
    /\ layers.unclassified = "deny"
    /\ layers.rules = <<LayerRule(Interface, <<Foundation>>)>>
    /\ dep_edges = << <<(<<"A">>), <<"X">>>>, <<(<<"C">>), <<"A">>>> >>
    /\ Classified(<<"A">>) /\ ~Classified(<<"C">>)
    /\ Len(result.returned) = 1
    /\ result.returned[1].to_module = <<"X">>

\* the rule entry of a layer that build_allowed_deps keeps: its last one
RuleEntries(layer) == {i \in 1..Len(layers.rules) : layers.rules[i].from_layer = layer}

AllowList(layer) ==
    Range(layers.rules[CHOOSE i \in RuleEntries(layer) :
                          \A j \in RuleEntries(layer) : j <= i].to)

\* source with a known path, both ends classified, the source layer has a
\* rule entry and the target layer is not in its allow-list
Disallowed(edge) ==
    /\ edge[1] \in DOMAIN dep_paths
    /\ Classified(edge[1])
    /\ Classified(edge[2])
    /\ RuleEntries(LayerOf(edge[1])) # {}
    /\ LayerOf(edge[2]) \notin AllowList(LayerOf(edge[1]))

\* C15: under the policy allow, compute_layer_violations reports an edge if
\* and only if its source has a known path, source and target are classified
\* (first matching layer), the source layer has a rule entry and the target
\* layer is not in the entry's allow-list; it reports one record per such
\* edge of the list, carrying the two layers, and nothing else
C15_AllowReportsExactlyDisallowedEdges ==
    pc = "layered" /\ layers.unclassified = "allow" =>
        /\ \A edge \in DepEdges : Flagged(edge) <=> Disallowed(edge)
        /\ Len(result.returned)
               = Cardinality({i \in 1..Len(dep_edges) : Disallowed(dep_edges[i])})
        /\ \A i \in 1..Len(result.returned) :
               \E edge \in DepEdges :
                   /\ Disallowed(edge)
                   /\ result.returned[i] = [from_file |-> dep_paths[edge[1]],
                                            to_module |-> edge[2],
                                            from_layer |-> LayerOf(edge[1]),
                                            to_layer |-> Some(LayerOf(edge[2]))]

\* the single rule interface -> [foundation]: B (interface) -> A (foundation)
\* is not reported, B -> C (integration) is
C15_Witness ==
    /\ pc = "layered"
    /\ layers.unclassified = "allow"
    /\ layers.rules = <<LayerRule(Interface, <<Foundation>>)>>
    /\ dep_edges = << <<(<<"B">>), <<"A">>>>, <<(<<"B">>), <<"C">>>> >>
    /\ Classified(<<"A">>) /\ Classified(<<"B">>) /\ Classified(<<"C">>)
    /\ LayerOf(<<"B">>) = Interface /\ LayerOf(<<"A">>) = Foundation
    /\ Len(result.returned) = 1
    /\ result.returned[1].to_module = <<"C">>

----------------------------------------------------------------------------
(* contract/artifacts.py: the ref_id contract *)

\* _WHITESPACE_RUN.sub(" ", s): each run of whitespace becomes one space
RECURSIVE CollapseWhitespace(_)
CollapseWhitespace(s) ==
    IF s = <<>> THEN <<>>
    ELSE IF Head(s) = WS /\ Len(s) >= 2 /\ s[2] = WS THEN CollapseWhitespace(Tail(s))
    ELSE <<Head(s)>> \o CollapseWhitespace(Tail(s))

\* normalize_expr(raw_expr)
normalize_expr(raw_expr) == CollapseWhitespace(Strip(raw_expr))

\* build_ref_id(path, start_line, start_col, ref_kind, expr)
build_ref_id(path, start_line, start_col, ref_kind, expr) ==
    <<"ref:">> \o path
        \o <<"@", "L", ToString(start_line), ":", "C", ToString(start_col), ":", ref_kind, ":">>
        \o normalize_expr(expr)

\* the records of an artifact of a run, none before it is written
ArtifactRecords(dir, artifact) ==
    IF disk[dir][artifact] = None THEN <<>> ELSE Get(disk[dir][artifact])

\* C17: in calls_raw.jsonl, refs.jsonl and calls.jsonl of every run, the
\* stored ref_id of each record equals build_ref_id of the record's own path,
\* start_line, start_col, the kind "call" and its expression (callee_expr,
\* expr), whose whitespace build_ref_id strips and collapses
C17_RefIdIsBuildRefId ==
    \A dir \in DOMAIN disk :
        /\ \A i \in 1..Len(ArtifactRecords(dir, "calls_raw")) :
            LET r == ArtifactRecords(dir, "calls_raw")[i] IN
            r.ref_id = build_ref_id(r.src_span.path, r.src_span.start_line,
                                    r.src_span.start_col, "call", r.callee_expr)
        /\ \A i \in 1..Len(ArtifactRecords(dir, "refs")) :
            LET r == ArtifactRecords(dir, "refs")[i] IN
            r.ref_id = build_ref_id(r.src_span.path, r.src_span.start_line,
                                    r.src_span.start_col, r.ref_kind, r.expr)
        /\ \A i \in 1..Len(ArtifactRecords(dir, "calls")) :
            LET r == ArtifactRecords(dir, "calls")[i] IN
            r.ref_id = build_ref_id(r.src_span.path, r.src_span.start_line,
                                    r.src_span.start_col, "call", r.callee_expr)

\* a finished run whose three artifacts hold the call self.m of pkg/mod.py
C17_Witness ==
    \E dir \in DOMAIN disk :
        /\ pc = "idle"
        /\ \A artifact \in {"calls_raw", "refs", "calls"} :
            \E i \in 1..Len(ArtifactRecords(dir, artifact)) :
                ArtifactRecords(dir, artifact)[i].ref_id
                    = <<"ref:", "pkg", "/", "mod", ".py", "@", "L", "6", ":", "C", "16",
                        ":", "call", ":", "self", ".", "m">>

----------------------------------------------------------------------------
(* CallsGenerator.generate on its own: out_dir holds a refs.jsonl in the order
   RefsGenerator sorts it, the other artifacts are not read *)

\* the most records of a refs.jsonl of the runs
MaxRefs == 3

CallsDir == <<"tmp", "out_one">>

\* a RefRecord of pkg/mod.py as RefsGenerator leaves it for an unresolved
\* expression
RefsEntry(ref_kind, start_line, start_col, enclosing_id, expr) ==
    [ref_id |-> build_ref_id(P_pkg_mod, start_line, start_col, ref_kind, expr),
     ref_kind |-> ref_kind,
     src_span |-> [path |-> P_pkg_mod, start_line |-> start_line, start_col |-> start_col],
     module |-> M_pkg_mod,
     enclosing_symbol_id |-> enclosing_id,
     expr |-> expr,
     resolved_to |-> None,
     evidence |-> [strategy |-> "dynamic_unresolvable", confidence |-> 0],
     resolved_base_to |-> None,
     member |-> None]

RefsEntries ==
    {RefsEntry(ref_kind, 2, start_col, enclosing_id, expr) :
        ref_kind \in {"call", "name"},
        start_col \in {1, 5},
        enclosing_id \in {None, Some(<<"sym:", "A">>), Some(<<"sym:", "B">>)},
        expr \in {<<"f">>, <<"g">>}}

\* the sort key of RefsGenerator.generate
RefsSortKey(r) ==
    <<StrKey(r.src_span.path), IntKey(r.src_span.start_line), IntKey(r.src_span.start_col),
      StrKey(<<r.ref_kind>>),
      StrKey(IF r.enclosing_symbol_id = None THEN <<>> ELSE Get(r.enclosing_symbol_id)),
      StrKey(r.expr)>>

\* the records of a set in the order of refs.sort
RECURSIVE SortedRefs(_)
SortedRefs(S) ==
    IF S = {} THEN <<>>
    ELSE LET r == CHOOSE x \in S : TRUE
         IN InsertByKey(SortedRefs(S \ {r}), [key |-> RefsSortKey(r), value |-> r])

RefsFiles ==
    {Once({[i \in 1..Len(sorted) |-> sorted[i].value] : sorted \in {SortedRefs(S)}}) :
        S \in {T \in SUBSET RefsEntries : Cardinality(T) <= MaxRefs}}

InitCalls ==
    /\ pc = "calls"
    /\ callee_expr = <<>>
    /\ enclosing_symbol_id = None
    /\ result = Returned(None)
    /\ name_table = <<>>
    /\ modules_index = <<>>
    /\ symbols_index = <<>>
    /\ files = <<>>
    /\ table_path = <<>>
    /\ gitignores = <<>>
    /\ config = Config(<<>>, <<>>, FALSE)
    /\ out_dir = CallsDir
    /\ \E refs \in RefsFiles : disk = WriteArtifact(<<>>, CallsDir, "refs", refs)
    /\ NoDeps

NextCalls == GenerateCalls

SpecCalls == InitCalls /\ [][NextCalls]_vars

\* the positions of the call records in refs.jsonl
CallRefs(dir) ==
    {j \in 1..Len(ArtifactRecords(dir, "refs")) : ArtifactRecords(dir, "refs")[j].ref_kind = "call"}

\* the position in refs.jsonl of its i-th call record
NthCallRef(dir, i) ==
    CHOOSE j \in CallRefs(dir) : Cardinality({k \in CallRefs(dir) : k <= j}) = i

\* C11: once calls.jsonl is written, its ref_id values are among those of
\* refs.jsonl; it holds one record per call record of refs.jsonl, in the same
\* order, each with the ref_id, span and expression of the record it comes from
C11_CallsAreProjectedRefs ==
    \A dir \in RunsWith("calls") :
        /\ {ArtifactRecords(dir, "calls")[i].ref_id : i \in 1..Len(ArtifactRecords(dir, "calls"))}
               \subseteq
           {ArtifactRecords(dir, "refs")[j].ref_id : j \in 1..Len(ArtifactRecords(dir, "refs"))}
        /\ Len(ArtifactRecords(dir, "calls")) = Cardinality(CallRefs(dir))
        /\ \A i \in 1..Len(ArtifactRecords(dir, "calls")) :
            LET call == ArtifactRecords(dir, "calls")[i]
                ref == ArtifactRecords(dir, "refs")[NthCallRef(dir, i)]
            IN /\ call.ref_id = ref.ref_id
               /\ call.src_span = ref.src_span
               /\ call.callee_expr = ref.expr
               /\ call.enclosing_symbol_id = ref.enclosing_symbol_id

\* calls.jsonl written from a refs.jsonl of two call records and one record of
\* another kind between them
C11_Witness ==
    /\ pc = "idle"
    /\ Len(ArtifactRecords(CallsDir, "refs")) = 3
    /\ ArtifactRecords(CallsDir, "refs")[2].ref_kind = "name"
    /\ Len(ArtifactRecords(CallsDir, "calls")) = 2

\* the declared sort key of calls.jsonl
CallsKey(r) ==
    <<StrKey(r.src_span.path), IntKey(r.src_span.start_line), IntKey(r.src_span.start_col),
      StrKey(r.callee_expr)>>

----------------------------------------------------------------------------
(* Claims about the enclosing symbol of a recorded call *)

\* the SymbolRecords of a run for the function or method a definition node
\* declares: same file, the node's line and 1-based column
SymbolRecordsOf(dir, path, def) ==
    {s \in Range(ArtifactRecords(dir, "symbols")) :
        /\ s.path = path
        /\ s.kind \in {"function", "method"}
        /\ s.start_line = def.line
        /\ s.start_col = def.col + 1}

\* the refs records of a run for a call node of a file
RefsRecordsOf(dir, path, call) ==
    {r \in Range(ArtifactRecords(dir, "refs")) :
        r.src_span = [path |-> path, start_line |-> call.line, start_col |-> call.col + 1]}

\* C16: every call directly inside a method or top-level function that has a
\* SymbolRecord is recorded in refs.jsonl with that SymbolRecord's symbol_id as
\* its enclosing_symbol_id, not the raw extractor id and not the id of another
\* symbol
C16_EnclosingIdIsEnclosingSymbol ==
    \A dir \in RunsWith("refs") : \A path \in DOMAIN files :
        \A i \in 1..Len(files[path].calls) :
            LET call == files[path].calls[i] IN
            call.scope # None /\ Get(call.scope).type = "function_definition" =>
                \A s \in SymbolRecordsOf(dir, path, Get(call.scope)) :
                    \A r \in RefsRecordsOf(dir, path, call) :
                        r.enclosing_symbol_id = Some(s.symbol_id)

----------------------------------------------------------------------------
(* Claims about when the artifacts of a run are written *)

\* C20: the outputs of a run are written in one pass at its end: at every
\* point of a run, which is where an interruption leaves it, an output
\* directory holds none of the artifacts or all of them, never a subset
C20_OutputsWrittenInOnePass ==
    \A dir \in DOMAIN disk :
        \/ \A artifact \in DOMAIN NoArtifacts : disk[dir][artifact] = None
        \/ \A artifact \in DOMAIN NoArtifacts : disk[dir][artifact] # None

----------------------------------------------------------------------------
(* Claims about the files the generators scan *)

\* the files an artifact of a run has records of
PathsIn(dir, artifact) ==
    IF artifact \in {"calls_raw", "refs"}
    THEN {r.src_span.path : r \in Range(ArtifactRecords(dir, artifact))}
    ELSE {r.path : r \in Range(ArtifactRecords(dir, artifact))}

\* a .gitignore below the root lists the file
IgnoredByNestedFile(path) ==
    \E d \in DOMAIN gitignores \ {<<>>} :
        IgnoreFileMatches(IgnoreFile(d, gitignores[d]), path)

\* C19: in a run, the generators that scan the tree work on one file list:
\* symbols.jsonl (a module record for each file scanned) and modules.jsonl (a
\* record for each file scanned) name the same files, integrations, calls_raw
\* and refs name none but these, and with nested_gitignore enabled a file that
\* a nested ignore-file lists is in none of the artifacts
C19_GeneratorsScanSameFiles ==
    \A dir \in RunsWith("refs") :
        /\ PathsIn(dir, "symbols") = PathsIn(dir, "modules")
        /\ \A artifact \in {"integrations", "calls_raw", "refs"} :
               PathsIn(dir, artifact) \subseteq PathsIn(dir, "modules")
        /\ config.nested_gitignore =>
               \A artifact \in {"symbols", "modules", "integrations", "calls_raw", "refs"} :
                   \A path \in PathsIn(dir, artifact) : ~IgnoredByNestedFile(path)

----------------------------------------------------------------------------
(* graph/algos.py: the stack of find_cycles *)

\* C29: for every graph, with or without targets that are no keys and with or
\* without self-loops, _extract_scc never raises its RuntimeError (a node
\* whose low-link equals its index is on the stack), and when find_cycles
\* returns the stack and the on-stack set are empty and every visited node
\* has been popped exactly once
C29_StackEmptiedEveryNodePoppedOnce ==
    pc = "cycled" =>
        /\ ~frame.raised
        /\ result.raised = ""
        /\ frame.stack = <<>>
        /\ frame.on_stack = {}
        /\ Range(frame.pops) = DOMAIN frame.indices
        /\ Len(frame.pops) = Cardinality(DOMAIN frame.indices)

\* a graph whose only key A has a self-loop and an edge to B, which is no key
\* and which a second edge reaches again: both nodes were visited and popped
C29_Witness ==
    /\ pc = "cycled"
    /\ dep_graph.nodes = <<(<<"A">>)>>
    /\ dep_graph.adj[<<"A">>] = {<<"A">>, <<"B">>}
    /\ frame.pops = <<(<<"B">>), (<<"A">>)>>

----------------------------------------------------------------------------
(* rules/layers.py: is_violation on its own *)

\* the source layer of the call has no entry in the allowed-dependency map
NoRuleEntry ==
    frame.from_layer = None \/ Get(frame.from_layer) \notin DOMAIN frame.allowed_deps

\* C23: a missing rule entry is permissive: is_violation returns false for
\* every edge whose source layer has no entry in the allowed-dependency map,
\* whatever the target layer, classified or not, and whatever the policy
C23_MissingRuleEntryAlwaysPermissive ==
    pc = "judged" /\ NoRuleEntry => result.returned = FALSE

\* C23, amended: without an entry for the source layer is_violation returns
\* false when the target is classified, under every policy, and when the
\* policy is allow or ignore; under deny a classified source with an
\* unclassified target is a violation, entry or no entry
C23_MissingRuleEntryPermissiveUnlessDenied ==
    pc = "judged" /\ NoRuleEntry =>
        result.returned = (/\ frame.unclassified = "deny"
                           /\ frame.from_layer # None
                           /\ frame.to_layer = None)

\* foundation -> interface under deny, the only rule entry being that of
\* interface: no violation
C23_Witness ==
    /\ pc = "judged"
    /\ frame.from_layer = Some(Foundation)
    /\ frame.to_layer = Some(Interface)
    /\ frame.allowed_deps = (Interface :> {Foundation})
    /\ frame.unclassified = "deny"
    /\ result.returned = FALSE

\* the records of compute_layer_violations whose source file is a file no
\* layer glob matches
UnclassifiedSourceRecords ==
    {i \in 1..Len(result.returned) :
        classify_layer(result.returned[i].from_file, layers) = None}

\* C24: under deny is_violation returns true for a classified source with an
\* unclassified target and false for an unclassified source with a classified
\* target, and compute_layer_violations reports no edge whose source file is
\* unclassified, under any policy
C24_DenyAsymmetricSourceNeverReported ==
    /\ pc = "judged" /\ frame.unclassified = "deny" =>
           /\ frame.from_layer # None /\ frame.to_layer = None => result.returned = TRUE
           /\ frame.from_layer = None /\ frame.to_layer # None => result.returned = FALSE
    /\ pc = "layered" => UnclassifiedSourceRecords = {}

\* interface -> an unclassified target under deny, interface allowed to
\* depend on foundation only: a violation
C24_Witness ==
    /\ pc = "judged"
    /\ frame.unclassified = "deny"
    /\ frame.from_layer = Some(Interface)
    /\ frame.to_layer = None
    /\ frame.allowed_deps = (Interface :> {Foundation})
    /\ result.returned = TRUE

----------------------------------------------------------------------------
(* parse/ast_imports.py and artifacts/generators/deps.py: the edges of one
   from-import statement, and resolve_relative_import on its own *)

\* an ast.alias: name and asname (Optional)
Alias(name, asname) == [name |-> name, asname |-> asname]

\* an ast.ImportFrom: lineno, module (Optional), names and level
ImportFrom(lineno, module, names, level) ==
    [lineno |-> lineno, module |-> module, names |-> names, level |-> level]

\* _get_import_type(name, is_relative): the star is tested first
get_import_type(name, is_relative) ==
    IF name.name = <<"*">> THEN "import_star"
    ELSE IF is_relative THEN "relative_import" ELSE "import_from"

\* _format_alias(name)
format_alias(name) ==
    IF name.asname # None THEN name.name \o <<" as ">> \o Get(name.asname) ELSE name.name

\* _process_import_from_node(node, imports): one entry for each name, under
\* the key of its import type
process_import_from_node(node) ==
    [i \in 1..Len(node.names) |->
        Stmt(get_import_type(node.names[i], node.level > 0),
             <<node.lineno, IF node.module = None THEN <<>> ELSE Get(node.module),
               format_alias(node.names[i]), node.level>>)]

\* the most dots a from-import statement of the runs starts with
MaxLevel == 3

ImportingModules ==
    {<<>>, <<"top">>, M_pkg, M_pkg_mod, <<"pkg", ".", "sub", ".", "mod">>}

RelativeModules == {<<>>, <<"sub">>, <<"sub", ".", "mod">>}

\* the arguments of the calls of resolve_relative_import
RelativeFrames ==
    {[importing_module |-> importing_module, relative_module |-> relative_module,
      level |-> level] :
        importing_module \in ImportingModules, relative_module \in RelativeModules,
        level \in 1..MaxLevel}

\* the names after `import`: fn; fn as A; *; fn, mod
ImportedNames ==
    {<<Alias(<<"fn">>, None)>>,
     <<Alias(<<"fn">>, Some(<<"A">>))>>,
     <<Alias(<<"*">>, None)>>,
     <<Alias(<<"fn">>, None), Alias(<<"mod">>, None)>>}

\* the from-import statements: `from <dots><module> import <names>`; a
\* statement without dots names a module
ImportFromNodes ==
    {ImportFrom(1, module, names, level) :
        module \in {None} \cup {Some(m) : m \in RelativeModules \ {<<>>}},
        names \in ImportedNames, level \in 0..MaxLevel}
    \ {ImportFrom(1, None, names, 0) : names \in ImportedNames}

\* the files of the runs: one statement in top.py, pkg/mod.py or
\* pkg/mod/sub.py
EdgeFrames ==
    {[node |-> node, relative_path |-> relative_path] :
        node \in ImportFromNodes, relative_path \in {P_top, P_pkg_mod, P_pkg_mod_sub}}

\* a run is one call of resolve_relative_import or one call of
\* _extract_edges_from_file
InitImports ==
    /\ callee_expr = <<>>
    /\ enclosing_symbol_id = None
    /\ result = Returned(None)
    /\ name_table = <<>>
    /\ modules_index = <<>>
    /\ symbols_index = <<>>
    /\ files = <<>>
    /\ table_path = <<>>
    /\ gitignores = <<>>
    /\ config = [include |-> <<>>, exclude |-> <<>>]
    /\ out_dir = <<>>
    /\ disk = <<>>
    /\ dep_graph = <<>>
    /\ dep_edges = <<>>
    /\ dep_paths = <<>>
    /\ layers = <<>>
    /\ \/ pc = "relative" /\ frame \in RelativeFrames
       \/ pc = "edges" /\ frame \in EdgeFrames

CallResolveRelativeImport ==
    /\ pc = "relative"
    /\ result' = Returned(resolve_relative_import(frame.importing_module,
                                                  frame.relative_module, frame.level))
    /\ pc' = "resolved"
    /\ UNCHANGED <<callee_expr, enclosing_symbol_id, index_vars, tree_vars,
                   pipeline_vars, deps_vars>>

CallExtractEdgesFromFile ==
    /\ pc = "edges"
    /\ result' = Returned(extract_edges_from_file(
                     ParsedFile(<<>>, process_import_from_node(frame.node), <<>>),
                     frame.relative_path))
    /\ pc' = "edged"
    /\ UNCHANGED <<callee_expr, enclosing_symbol_id, index_vars, tree_vars,
                   pipeline_vars, deps_vars>>

NextImports == CallResolveRelativeImport \/ CallExtractEdgesFromFile

SpecImports == InitImports /\ [][NextImports]_vars

\* the importing module without its last `level` components, followed by the
\* relative module name, if any
LevelsUp(importing_module, relative_module, level) ==
    LET parts == Split(importing_module, DOT) IN
    Join(SubSeq(parts, 1, Len(parts) - level)
             \o (IF relative_module # <<>> THEN <<relative_module>> ELSE <<>>), DOT)

\* C26: when level does not exceed the number of dotted components of the
\* importing module, resolve_relative_import returns the importing module
\* without its last `level` components followed by the relative module name,
\* if any; when level exceeds it, it returns the raw relative module name
C26_LevelsUpOrRawName ==
    pc = "resolved" =>
        result.returned =
            IF frame.level <= Len(Split(frame.importing_module, DOT))
            THEN LevelsUp(frame.importing_module, frame.relative_module, frame.level)
            ELSE frame.relative_module

\* C26, amended: as above, except that the importing module itself is
\* returned when nothing else is left: no relative module name and either
\* every component removed or more levels than components
C26_LevelsUpOrRawNameOrImporter ==
    pc = "resolved" =>
        result.returned =
            IF frame.relative_module = <<>>
               /\ frame.level >= Len(Split(frame.importing_module, DOT))
            THEN frame.importing_module
            ELSE IF frame.level <= Len(Split(frame.importing_module, DOT))
            THEN LevelsUp(frame.importing_module, frame.relative_module, frame.level)
            ELSE frame.relative_module

\* `from ..sub import x` in pkg.sub.mod names pkg.sub
C26_Witness ==
    /\ pc = "resolved"
    /\ frame.importing_module = <<"pkg", ".", "sub", ".", "mod">>
    /\ frame.relative_module = <<"sub">>
    /\ frame.level = 2
    /\ result.returned = <<"pkg", ".", "sub">>

\* the module a name of a from-import statement with dots refers the edge
\* to: the module after the dots, or the name when there is none
RelativeTarget(node, i) ==
    IF node.module # None THEN Get(node.module) ELSE node.names[i].name

\* C25: every edge the deps generator derives from an import statement with
\* level >= 1 (of a module, of a name, or a star import) has as its target
\* the module that relative-import resolution against the importing module
\* gives; no target is a raw relative module name
C25_RelativeEdgesAreResolved ==
    pc = "edged" /\ frame.node.level >= 1 =>
        \A e \in Range(result.returned) :
            /\ e[1] = path_to_module(frame.relative_path)
            /\ \E i \in 1..Len(frame.node.names) :
                   e[2] = resolve_relative_import(path_to_module(frame.relative_path),
                                                  RelativeTarget(frame.node, i),
                                                  frame.node.level)

----------------------------------------------------------------------------
(* parse/treesitter_calls.py: the recorded callee expressions *)

\* the callee is a plain name or a dotted chain of plain names
RECURSIVE IsNameChain(_)
IsNameChain(node) ==
    \/ node.type = "identifier"
    \/ /\ node.type = "attribute"
       /\ node.attribute # None
       /\ IsNameChain(node.object)

\* the source text of a chain of plain names
RECURSIVE DottedText(_)
DottedText(node) ==
    IF node.type = "identifier" THEN node.text
    ELSE DottedText(node.object) \o <<".">> \o Get(node.attribute)

\* the callee expressions calls_raw.jsonl records at the position of a call
RawExprsAt(dir, path, call) ==
    {r.callee_expr : r \in {x \in Range(ArtifactRecords(dir, "calls_raw")) :
        x.src_span = [path |-> path, start_line |-> call.line, start_col |-> call.col + 1]}}

\* C27: a call super().m() is recorded with callee_expr = "super().m", the
\* shape the resolver reads as super().<method>; a callee that is a dotted
\* chain of plain names is recorded with its dotted text
C27_SuperCallRecordedAsSuperMethod ==
    \A dir \in RunsWith("calls_raw") : \A path \in DOMAIN files :
        \A i \in 1..Len(files[path].calls) :
            LET call == files[path].calls[i] IN
            RawExprsAt(dir, path, call) # {} =>
                /\ IsNameChain(call.callee) =>
                       DottedText(call.callee) \in RawExprsAt(dir, path, call)
                /\ call.callee.type = "attribute" /\ call.callee.object = CallNode =>
                       <<"super()", ".">> \o Get(call.callee.attribute)
                           \in RawExprsAt(dir, path, call)

----------------------------------------------------------------------------
(* parse/treesitter_symbols.py: the base classes of the symbol records *)

\* the records symbols.jsonl holds for a definition of a file
RecordsOfDef(dir, path, def) ==
    {s \in Range(ArtifactRecords(dir, "symbols")) :
        /\ s.path = path
        /\ s.kind # "module"
        /\ s.start_line = def.line
        /\ s.start_col = def.col + 1}

\* C21: the record of every class whose class statement lists base classes
\* carries base_classes, the names as written and in their order (class A(X)
\* gives ["X"]); the record of a class without bases and every record that is
\* no class carries none
C21_ClassRecordsCarryBaseClasses ==
    \A dir \in RunsWith("symbols") :
        /\ \A path \in DOMAIN files : \A i \in 1..Len(files[path].defs) :
               \A s \in RecordsOfDef(dir, path, files[path].defs[i]) :
                   s.base_classes = IF files[path].defs[i].type = "class_definition"
                                    THEN files[path].defs[i].bases ELSE <<>>
        /\ \A s \in Range(ArtifactRecords(dir, "symbols")) :
               s.kind # "class" => s.base_classes = <<>>

----------------------------------------------------------------------------
(* parse/name_resolution.py: the shapes of a Tier 1 result *)

\* resolve_call returned a tuple, here r
Tier1Result == Get(result.returned)

\* the ResolvedTo of a result that has one
ResultTarget ==
    IF Tier1Result.resolved_to # None THEN Get(Tier1Result.resolved_to)
    ELSE Get(Tier1Result.resolved_base_to)

FullShape ==
    /\ Tier1Result.resolved_to # None
    /\ Tier1Result.resolved_base_to = None
    /\ Tier1Result.member = None

PartialShape ==
    /\ Tier1Result.resolved_to = None
    /\ Tier1Result.resolved_base_to # None
    /\ Tier1Result.member # None
    /\ Get(Tier1Result.member) # <<>>

\* the partial shape with the member that is left of an expression ending in
\* a dot: the empty string
PartialShapeOrEmptyMember ==
    /\ Tier1Result.resolved_to = None
    /\ Tier1Result.resolved_base_to # None
    /\ Tier1Result.member # None
    /\ Get(Tier1Result.member) = <<>> => EndsWith(Strip(callee_expr), <<".">>)

UnresolvedShape ==
    /\ Tier1Result.resolved_to = None
    /\ Tier1Result.resolved_base_to = None
    /\ Tier1Result.member = None
    /\ Tier1Result.strategy = "dynamic_unresolvable"
    /\ Tier1Result.confidence = 0

----------------------------------------------------------------------------
(* Module-to-path runs: the mapping of the call resolver (modules.jsonl read
   by build_modules_index, inverted by _invert_modules_index) and the mapping
   of the deps generator, made of the same scanned tree *)

P_pkg_py == <<"pkg", ".py">>

\* the files a tree of the runs can hold: src/pkg/mod.py and pkg/mod.py are
\* both the module pkg.mod, pkg.py and pkg/__init__.py both the module pkg
MappedPaths == {P_src_pkg_mod, P_pkg_mod, P_pkg_py, P_pkg_init, P_top}

InitMappings ==
    /\ pc = "mapping"
    /\ callee_expr = <<>>
    /\ enclosing_symbol_id = None
    /\ result = Returned(None)
    /\ name_table = <<>>
    /\ modules_index = <<>>
    /\ symbols_index = <<>>
    /\ \E paths \in SUBSET MappedPaths \ {{}} :
           files = [p \in paths |-> ParsedFile(<<>>, <<>>, <<>>)]
    /\ table_path = <<>>
    /\ gitignores = NoIgnoreFiles
    /\ config = Config(<<>>, <<>>, FALSE)
    /\ out_dir = <<"tmp", "out_one">>
    /\ disk = <<>>
    /\ NoDeps

\* RefsGenerator.generate: the modules index read from the records of
\* ModulesGenerator
ResolverMapsModules ==
    /\ pc \in {"mapping", "deps_mapped"}
    /\ \E listing \in Listings(DOMAIN files) :
           modules_index' = build_modules_index(
               modules_generate(files, listing, gitignores, out_dir, config.include,
                                config.exclude, config.nested_gitignore))
    /\ pc' = IF pc = "mapping" THEN "resolver_mapped" ELSE "mapped"
    /\ UNCHANGED <<resolver_vars, name_table, symbols_index, tree_vars, pipeline_vars,
                   deps_vars>>

\* DepsGenerator.generate: module_to_path filled while the files are scanned
DepsMapsModules ==
    /\ pc \in {"mapping", "resolver_mapped"}
    /\ \E listing \in Listings(DOMAIN files) :
           dep_paths' = deps_module_to_path(
               Scanned(listing, gitignores, out_dir, config.include, config.exclude,
                       config.nested_gitignore))
    /\ pc' = IF pc = "mapping" THEN "deps_mapped" ELSE "mapped"
    /\ UNCHANGED <<resolver_vars, index_vars, tree_vars, pipeline_vars,
                   dep_graph, dep_edges, layers, frame>>

NextMappings == ResolverMapsModules \/ DepsMapsModules

SpecMappings == InitMappings /\ [][NextMappings]_vars

\* C30: when two scanned paths have the same module name (src/pkg/mod.py and
\* pkg/mod.py, or pkg.py and pkg/__init__.py), the module-to-path mapping of
\* the call resolver and that of the deps generator select the same path for
\* the module
C30_MappingsSelectSamePath ==
    pc = "mapped" =>
        \A m \in DOMAIN dep_paths :
            /\ m \in DOMAIN invert_modules_index(modules_index)
            /\ invert_modules_index(modules_index)[m] = dep_paths[m]

----------------------------------------------------------------------------
(* artifacts/write.py: resolution after extraction *)

\* the artifacts RefsGenerator loads before it resolves a call
RefsInputs == {"symbols", "modules", "calls_raw"}

\* C22: resolution is a barrier after extraction: RefsGenerator starts only
\* when symbols, modules and calls_raw of the run are written, what it read
\* from them is the same when it has resolved the calls, and CallsGenerator
\* starts only when refs is written
C22_ResolutionAfterExtraction ==
    [][/\ pc' = "refs" => \A artifact \in RefsInputs : disk'[out_dir'][artifact] # None
       /\ pc = "refs" => \A artifact \in RefsInputs :
                             disk'[out_dir][artifact] = disk[out_dir][artifact]
       /\ pc' = "calls" => /\ pc = "refs"
                           /\ disk'[out_dir'].refs # None
                           /\ disk[out_dir].refs = None]_vars

\* RefsGenerator has written the resolved calls of the run and CallsGenerator
\* has not yet started
C22_Witness ==
    /\ pc = "calls"
    /\ Len(ArtifactRecords(out_dir, "refs")) > 0
    /\ disk[out_dir].calls = None
    /\ \A artifact \in RefsInputs : disk[out_dir][artifact] # None

============================================================================
